---- MODULE Spec2Model ----
(***************************************************************************)
(* A model of the agent orchestration engine of retail-insights            *)
(* (src/src/lib/multi-agent-system.ts): RetailSafetyFilter,                *)
(* SupervisorAgent, RAGAgent and SQLAgent, with the language model, the    *)
(* schema endpoint and the query endpoint as an environment that answers,  *)
(* raises or stays silent.                                                 *)
(*                                                                         *)
(* A text is a sequence of tokens, each token standing for the string it   *)
(* spells; a literal of the source is one token.  Numbers in [0,1] are     *)
(* kept in thousandths (0.95 is 950).  An optional field is <<>> when      *)
(* undefined and <<v>> when it holds v.  The token "~~~" spells the three  *)
(* backquotes of a code fence.                                             *)
(***************************************************************************)
EXTENDS Integers, Sequences, FiniteSets, TLC

\* ---------------------------------------------------------------- bounds

\* processQuery invocations that may be in progress or returned at once
MaxCalls == 2
\* processQuery invocations begun during one behaviour
MaxStarts == 2
\* the largest value Date.now() reaches
MaxClock == 2

Calls == 1..MaxCalls

\* ------------------------------------------------------------ JS helpers

\* the element of a one-element set: The({f(x) : x \in {e}}) is f(e), with e
\* computed once
The(S) == CHOOSE v \in S : TRUE

None == <<>>
Some(v) == <<v>>

\* the result of 0/0 (avgConfidence over no agent responses)
NaN == -1

MathMin(a, b) == IF a = NaN \/ b = NaN THEN NaN ELSE IF a <= b THEN a ELSE b
MathMax(a, b) == IF a = NaN \/ b = NaN THEN NaN ELSE IF a >= b THEN a ELSE b

\* \s of the regular expressions
IsSpace(t) == t \in {" ", "\n"}

\* every text of this module that has a letter, followed by the results of
\* String.prototype.toUpperCase and String.prototype.toLowerCase on it: three
\* entries for each text
caseForms ==
  <<
    "\n\nACTION: ", "\n\nACTION: ", "\n\naction: ",
    "\n\naction: ", "\n\nACTION: ", "\n\naction: ",
    "\n\nACTION: I WILL ", "\n\nACTION: I WILL ", "\n\naction: i will ",
    "\n\nACTION: I will ", "\n\nACTION: I WILL ", "\n\naction: i will ",
    "\n\naction: i will ", "\n\nACTION: I WILL ", "\n\naction: i will ",
    "\n\nADDITIONALLY:\n", "\n\nADDITIONALLY:\n", "\n\nadditionally:\n",
    "\n\nAdditionally:\n", "\n\nADDITIONALLY:\n", "\n\nadditionally:\n",
    "\n\nadditionally:\n", "\n\nADDITIONALLY:\n", "\n\nadditionally:\n",
    "\n\nOBSERVATION: ", "\n\nOBSERVATION: ", "\n\nobservation: ",
    "\n\nobservation: ", "\n\nOBSERVATION: ", "\n\nobservation: ",
    "\n\nREFLECTION: ", "\n\nREFLECTION: ", "\n\nreflection: ",
    "\n\nreflection: ", "\n\nREFLECTION: ", "\n\nreflection: ",
    "\nCREATE TABLE ~", "\nCREATE TABLE ~", "\ncreate table ~",
    "\ncreate table ~", "\nCREATE TABLE ~", "\ncreate table ~",
    " MORE ROWS\n", " MORE ROWS\n", " more rows\n",
    " more rows\n", " MORE ROWS\n", " more rows\n",
    " NOT FOUND.\n\n", " NOT FOUND.\n\n", " not found.\n\n",
    " not found.\n\n", " NOT FOUND.\n\n", " not found.\n\n",
    " NOT NULL", " NOT NULL", " not null",
    " not null", " NOT NULL", " not null",
    " REACHED", " REACHED", " reached",
    " reached", " REACHED", " reached",
    " ROWS FROM ", " ROWS FROM ", " rows from ",
    " rows from ", " ROWS FROM ", " rows from ",
    " ROWS:\n", " ROWS:\n", " rows:\n",
    " rows:\n", " ROWS:\n", " rows:\n",
    " TABLE:\n", " TABLE:\n", " table:\n",
    " table:\n", " TABLE:\n", " table:\n",
    " WILL PROVIDE THE MOST RELEVANT INFORMATION", " WILL PROVIDE THE MOST RELEVANT INFORMATION", " will provide the most relevant information",
    " will provide the most relevant information", " WILL PROVIDE THE MOST RELEVANT INFORMATION", " will provide the most relevant information",
    ". ONLY SELECT QUERIES ARE ALLOWED.", ". ONLY SELECT QUERIES ARE ALLOWED.", ". only select queries are allowed.",
    ". Only SELECT queries are allowed.", ". ONLY SELECT QUERIES ARE ALLOWED.", ". only select queries are allowed.",
    ". only select queries are allowed.", ". ONLY SELECT QUERIES ARE ALLOWED.", ". only select queries are allowed.",
    ". PLEASE REVIEW THE SQL SYNTAX AND REWRITE THE QUERY. FOCUS ON BASIC SELECT, FROM, WHERE, GROUP BY, ORDER BY CLAUSES.", ". PLEASE REVIEW THE SQL SYNTAX AND REWRITE THE QUERY. FOCUS ON BASIC SELECT, FROM, WHERE, GROUP BY, ORDER BY CLAUSES.", ". please review the sql syntax and rewrite the query. focus on basic select, from, where, group by, order by clauses.",
    ". Please review the SQL syntax and rewrite the query. Focus on basic SELECT, FROM, WHERE, GROUP BY, ORDER BY clauses.", ". PLEASE REVIEW THE SQL SYNTAX AND REWRITE THE QUERY. FOCUS ON BASIC SELECT, FROM, WHERE, GROUP BY, ORDER BY CLAUSES.", ". please review the sql syntax and rewrite the query. focus on basic select, from, where, group by, order by clauses.",
    ". please review the sql syntax and rewrite the query. focus on basic select, from, where, group by, order by clauses.", ". PLEASE REVIEW THE SQL SYNTAX AND REWRITE THE QUERY. FOCUS ON BASIC SELECT, FROM, WHERE, GROUP BY, ORDER BY CLAUSES.", ". please review the sql syntax and rewrite the query. focus on basic select, from, where, group by, order by clauses.",
    ". PLEASE TRY A SIMPLER APPROACH WITH BASIC SQL SYNTAX AND SMALLER RESULT SETS (LIMIT 10).", ". PLEASE TRY A SIMPLER APPROACH WITH BASIC SQL SYNTAX AND SMALLER RESULT SETS (LIMIT 10).", ". please try a simpler approach with basic sql syntax and smaller result sets (limit 10).",
    ". Please try a simpler approach with basic SQL syntax and smaller result sets (LIMIT 10).", ". PLEASE TRY A SIMPLER APPROACH WITH BASIC SQL SYNTAX AND SMALLER RESULT SETS (LIMIT 10).", ". please try a simpler approach with basic sql syntax and smaller result sets (limit 10).",
    ". please try a simpler approach with basic sql syntax and smaller result sets (limit 10).", ". PLEASE TRY A SIMPLER APPROACH WITH BASIC SQL SYNTAX AND SMALLER RESULT SETS (LIMIT 10).", ". please try a simpler approach with basic sql syntax and smaller result sets (limit 10).",
    "... AND ", "... AND ", "... and ",
    "... and ", "... AND ", "... and ",
    "/* ERROR LOADING SCHEMA FOR ", "/* ERROR LOADING SCHEMA FOR ", "/* error loading schema for ",
    "/* Error loading schema for ", "/* ERROR LOADING SCHEMA FOR ", "/* error loading schema for ",
    "/* error loading schema for ", "/* ERROR LOADING SCHEMA FOR ", "/* error loading schema for ",
    "/* SAMPLE DATA UNAVAILABLE FOR ", "/* SAMPLE DATA UNAVAILABLE FOR ", "/* sample data unavailable for ",
    "/* Sample data unavailable for ", "/* SAMPLE DATA UNAVAILABLE FOR ", "/* sample data unavailable for ",
    "/* sample data unavailable for ", "/* SAMPLE DATA UNAVAILABLE FOR ", "/* sample data unavailable for ",
    "/CONFIDENTIAL/I", "/CONFIDENTIAL/I", "/confidential/i",
    "/confidential/i", "/CONFIDENTIAL/I", "/confidential/i",
    "/DELETE\\S+FROM/I", "/DELETE\\S+FROM/I", "/delete\\s+from/i",
    "/DELETE\\s+FROM/i", "/DELETE\\S+FROM/I", "/delete\\s+from/i",
    "/delete\\s+from/i", "/DELETE\\S+FROM/I", "/delete\\s+from/i",
    "/DROP\\S+TABLE/I", "/DROP\\S+TABLE/I", "/drop\\s+table/i",
    "/DROP\\s+TABLE/i", "/DROP\\S+TABLE/I", "/drop\\s+table/i",
    "/drop\\s+table/i", "/DROP\\S+TABLE/I", "/drop\\s+table/i",
    "/PASSWORD/I", "/PASSWORD/I", "/password/i",
    "/password/i", "/PASSWORD/I", "/password/i",
    ": UNEXPECTED KEYWORD DROP", ": UNEXPECTED KEYWORD DROP", ": unexpected keyword drop",
    ": Unexpected keyword DROP", ": UNEXPECTED KEYWORD DROP", ": unexpected keyword drop",
    ": unexpected keyword drop", ": UNEXPECTED KEYWORD DROP", ": unexpected keyword drop",
    "_RAG", "_RAG", "_rag",
    "_rag", "_RAG", "_rag",
    "_SQL", "_SQL", "_sql",
    "_sql", "_SQL", "_sql",
    "A LONG TEXT", "A LONG TEXT", "a long text",
    "a long text", "A LONG TEXT", "a long text",
    "ABSENT", "ABSENT", "absent",
    "absent", "ABSENT", "absent",
    "ACCESS DENIED", "ACCESS DENIED", "access denied",
    "access denied", "ACCESS DENIED", "access denied",
    "ACTION", "ACTION", "action",
    "action", "ACTION", "action",
    "ALTER", "ALTER", "alter",
    "alter", "ALTER", "alter",
    "ALWAYS", "ALWAYS", "always",
    "always", "ALWAYS", "always",
    "ANALYSIS:", "ANALYSIS:", "analysis:",
    "analysis:", "ANALYSIS:", "analysis:",
    "ANALYTICS", "ANALYTICS", "analytics",
    "analytics", "ANALYTICS", "analytics",
    "ANALYTICS_AGENT", "ANALYTICS_AGENT", "analytics_agent",
    "analytics_agent", "ANALYTICS_AGENT", "analytics_agent",
    "ANALYZING QUERY TYPE: ", "ANALYZING QUERY TYPE: ", "analyzing query type: ",
    "Analyzing query type: ", "ANALYZING QUERY TYPE: ", "analyzing query type: ",
    "analyzing query type: ", "ANALYZING QUERY TYPE: ", "analyzing query type: ",
    "ARRAY", "ARRAY", "array",
    "array", "ARRAY", "array",
    "AVG_PRICE", "AVG_PRICE", "avg_price",
    "avg_price", "AVG_PRICE", "avg_price",
    "AVG_VALUE", "AVG_VALUE", "avg_value",
    "avg_value", "AVG_VALUE", "avg_value",
    "BADJSON", "BADJSON", "badjson",
    "badjson", "BADJSON", "badjson",
    "BASED ON ANALYSIS FROM OUR SPECIALIZED AGENTS:\n\n", "BASED ON ANALYSIS FROM OUR SPECIALIZED AGENTS:\n\n", "based on analysis from our specialized agents:\n\n",
    "Based on analysis from our specialized agents:\n\n", "BASED ON ANALYSIS FROM OUR SPECIALIZED AGENTS:\n\n", "based on analysis from our specialized agents:\n\n",
    "based on analysis from our specialized agents:\n\n", "BASED ON ANALYSIS FROM OUR SPECIALIZED AGENTS:\n\n", "based on analysis from our specialized agents:\n\n",
    "BASED ON THE ANALYSIS, HERE'S WHAT I FOUND:\n\n", "BASED ON THE ANALYSIS, HERE'S WHAT I FOUND:\n\n", "based on the analysis, here's what i found:\n\n",
    "Based on the analysis, here's what I found:\n\n", "BASED ON THE ANALYSIS, HERE'S WHAT I FOUND:\n\n", "based on the analysis, here's what i found:\n\n",
    "based on the analysis, here's what i found:\n\n", "BASED ON THE ANALYSIS, HERE'S WHAT I FOUND:\n\n", "based on the analysis, here's what i found:\n\n",
    "BEST", "BEST", "best",
    "best", "BEST", "best",
    "BIGQUERY", "BIGQUERY", "bigquery",
    "BigQuery", "BIGQUERY", "bigquery",
    "bigquery", "BIGQUERY", "bigquery",
    "BIGQUERY DATASET: THELOOK", "BIGQUERY DATASET: THELOOK", "bigquery dataset: thelook",
    "BigQuery Dataset: thelook", "BIGQUERY DATASET: THELOOK", "bigquery dataset: thelook",
    "bigquery dataset: thelook", "BIGQUERY DATASET: THELOOK", "bigquery dataset: thelook",
    "BIGQUERY_DATABASE", "BIGQUERY_DATABASE", "bigquery_database",
    "BigQuery_Database", "BIGQUERY_DATABASE", "bigquery_database",
    "bigquery_database", "BIGQUERY_DATABASE", "bigquery_database",
    "BOTH", "BOTH", "both",
    "both", "BOTH", "both",
    "BY", "BY", "by",
    "by", "BY", "by",
    "BYTES BILLED", "BYTES BILLED", "bytes billed",
    "bytes billed", "BYTES BILLED", "bytes billed",
    "BYTES BILLED LIMIT EXCEEDED", "BYTES BILLED LIMIT EXCEEDED", "bytes billed limit exceeded",
    "bytes billed limit exceeded", "BYTES BILLED LIMIT EXCEEDED", "bytes billed limit exceeded",
    "CATALOG", "CATALOG", "catalog",
    "catalog", "CATALOG", "catalog",
    "CATEGORY", "CATEGORY", "category",
    "category", "CATEGORY", "category",
    "CHANGE", "CHANGE", "change",
    "change", "CHANGE", "change",
    "CHECKQUERY", "CHECKQUERY", "checkquery",
    "checkQuery", "CHECKQUERY", "checkquery",
    "checkquery", "CHECKQUERY", "checkquery",
    "CHECKRESPONSE", "CHECKRESPONSE", "checkresponse",
    "checkResponse", "CHECKRESPONSE", "checkresponse",
    "checkresponse", "CHECKRESPONSE", "checkresponse",
    "CONFIDENTIAL", "CONFIDENTIAL", "confidential",
    "confidential", "CONFIDENTIAL", "confidential",
    "CONTAINS DATA KEYWORDS", "CONTAINS DATA KEYWORDS", "contains data keywords",
    "contains data keywords", "CONTAINS DATA KEYWORDS", "contains data keywords",
    "CONTAINS KNOWLEDGE KEYWORDS", "CONTAINS KNOWLEDGE KEYWORDS", "contains knowledge keywords",
    "contains knowledge keywords", "CONTAINS KNOWLEDGE KEYWORDS", "contains knowledge keywords",
    "COUNT", "COUNT", "count",
    "count", "COUNT", "count",
    "CREATE", "CREATE", "create",
    "create", "CREATE", "create",
    "CREATED_AT", "CREATED_AT", "created_at",
    "created_at", "CREATED_AT", "created_at",
    "CUSTOMER", "CUSTOMER", "customer",
    "customer", "CUSTOMER", "customer",
    "CUSTOMERS", "CUSTOMERS", "customers",
    "customers", "CUSTOMERS", "customers",
    "DANGER: QUERY CONTAINS POTENTIALLY DANGEROUS OPERATION: ", "DANGER: QUERY CONTAINS POTENTIALLY DANGEROUS OPERATION: ", "danger: query contains potentially dangerous operation: ",
    "DANGER: Query contains potentially dangerous operation: ", "DANGER: QUERY CONTAINS POTENTIALLY DANGEROUS OPERATION: ", "danger: query contains potentially dangerous operation: ",
    "danger: query contains potentially dangerous operation: ", "DANGER: QUERY CONTAINS POTENTIALLY DANGEROUS OPERATION: ", "danger: query contains potentially dangerous operation: ",
    "DATA", "DATA", "data",
    "data", "DATA", "data",
    "DELEGATE TO ", "DELEGATE TO ", "delegate to ",
    "delegate to ", "DELEGATE TO ", "delegate to ",
    "DELETE", "DELETE", "delete",
    "delete", "DELETE", "delete",
    "DONE", "DONE", "done",
    "done", "DONE", "done",
    "DROP", "DROP", "drop",
    "drop", "DROP", "drop",
    "EACH AGENT BRINGS A PART", "EACH AGENT BRINGS A PART", "each agent brings a part",
    "each agent brings a part", "EACH AGENT BRINGS A PART", "each agent brings a part",
    "ERROR", "ERROR", "error",
    "error", "ERROR", "error",
    "ERROR: ", "ERROR: ", "error: ",
    "Error: ", "ERROR: ", "error: ",
    "error: ", "ERROR: ", "error: ",
    "EVENTS", "EVENTS", "events",
    "events", "EVENTS", "events",
    "EXECUTE", "EXECUTE", "execute",
    "execute", "EXECUTE", "execute",
    "EXECUTEAGENTPLAN", "EXECUTEAGENTPLAN", "executeagentplan",
    "executeAgentPlan", "EXECUTEAGENTPLAN", "executeagentplan",
    "executeagentplan", "EXECUTEAGENTPLAN", "executeagentplan",
    "EXPECTED END OF INPUT BUT GOT KEYWORD AS", "EXPECTED END OF INPUT BUT GOT KEYWORD AS", "expected end of input but got keyword as",
    "Expected end of input but got keyword AS", "EXPECTED END OF INPUT BUT GOT KEYWORD AS", "expected end of input but got keyword as",
    "expected end of input but got keyword as", "EXPECTED END OF INPUT BUT GOT KEYWORD AS", "expected end of input but got keyword as",
    "FALLBACK RESPONSE DUE TO RETRIEVAL SYSTEM UNAVAILABILITY", "FALLBACK RESPONSE DUE TO RETRIEVAL SYSTEM UNAVAILABILITY", "fallback response due to retrieval system unavailability",
    "Fallback response due to retrieval system unavailability", "FALLBACK RESPONSE DUE TO RETRIEVAL SYSTEM UNAVAILABILITY", "fallback response due to retrieval system unavailability",
    "fallback response due to retrieval system unavailability", "FALLBACK RESPONSE DUE TO RETRIEVAL SYSTEM UNAVAILABILITY", "fallback response due to retrieval system unavailability",
    "FALLBACK RESPONSE DUE TO SQL GENERATION SYSTEM UNAVAILABILITY", "FALLBACK RESPONSE DUE TO SQL GENERATION SYSTEM UNAVAILABILITY", "fallback response due to sql generation system unavailability",
    "Fallback response due to SQL generation system unavailability", "FALLBACK RESPONSE DUE TO SQL GENERATION SYSTEM UNAVAILABILITY", "fallback response due to sql generation system unavailability",
    "fallback response due to sql generation system unavailability", "FALLBACK RESPONSE DUE TO SQL GENERATION SYSTEM UNAVAILABILITY", "fallback response due to sql generation system unavailability",
    "FALLBACK SYNTHESIS DUE TO PROCESSING ERROR", "FALLBACK SYNTHESIS DUE TO PROCESSING ERROR", "fallback synthesis due to processing error",
    "Fallback synthesis due to processing error", "FALLBACK SYNTHESIS DUE TO PROCESSING ERROR", "fallback synthesis due to processing error",
    "fallback synthesis due to processing error", "FALLBACK SYNTHESIS DUE TO PROCESSING ERROR", "fallback synthesis due to processing error",
    "FETCH FAILED", "FETCH FAILED", "fetch failed",
    "fetch failed", "FETCH FAILED", "fetch failed",
    "FIGURES", "FIGURES", "figures",
    "figures", "FIGURES", "figures",
    "FROM", "FROM", "from",
    "from", "FROM", "from",
    "GENERATED OPTIMIZED BIGQUERY SQL AND EXECUTED AGAINST REAL RETAIL DATABASE", "GENERATED OPTIMIZED BIGQUERY SQL AND EXECUTED AGAINST REAL RETAIL DATABASE", "generated optimized bigquery sql and executed against real retail database",
    "Generated optimized BigQuery SQL and executed against real retail database", "GENERATED OPTIMIZED BIGQUERY SQL AND EXECUTED AGAINST REAL RETAIL DATABASE", "generated optimized bigquery sql and executed against real retail database",
    "generated optimized bigquery sql and executed against real retail database", "GENERATED OPTIMIZED BIGQUERY SQL AND EXECUTED AGAINST REAL RETAIL DATABASE", "generated optimized bigquery sql and executed against real retail database",
    "GENERATED SQL QUERY AND SIMULATED RESULTS BASED ON RETAIL DATABASE SCHEMA", "GENERATED SQL QUERY AND SIMULATED RESULTS BASED ON RETAIL DATABASE SCHEMA", "generated sql query and simulated results based on retail database schema",
    "Generated SQL query and simulated results based on retail database schema", "GENERATED SQL QUERY AND SIMULATED RESULTS BASED ON RETAIL DATABASE SCHEMA", "generated sql query and simulated results based on retail database schema",
    "generated sql query and simulated results based on retail database schema", "GENERATED SQL QUERY AND SIMULATED RESULTS BASED ON RETAIL DATABASE SCHEMA", "generated sql query and simulated results based on retail database schema",
    "GREW", "GREW", "grew",
    "grew", "GREW", "grew",
    "GROUP", "GROUP", "group",
    "group", "GROUP", "group",
    "GROWTH_RATE", "GROWTH_RATE", "growth_rate",
    "growth_rate", "GROWTH_RATE", "growth_rate",
    "GUIDE", "GUIDE", "guide",
    "guide", "GUIDE", "guide",
    "HOW", "HOW", "how",
    "How", "HOW", "how",
    "how", "HOW", "how",
    "HUNG", "HUNG", "hung",
    "hung", "HUNG", "hung",
    "I CANNOT PROCESS THIS QUERY DUE TO SAFETY CONCERNS: ", "I CANNOT PROCESS THIS QUERY DUE TO SAFETY CONCERNS: ", "i cannot process this query due to safety concerns: ",
    "I cannot process this query due to safety concerns: ", "I CANNOT PROCESS THIS QUERY DUE TO SAFETY CONCERNS: ", "i cannot process this query due to safety concerns: ",
    "i cannot process this query due to safety concerns: ", "I CANNOT PROCESS THIS QUERY DUE TO SAFETY CONCERNS: ", "i cannot process this query due to safety concerns: ",
    "I ENCOUNTERED A COMPLEXITY ISSUE WHILE ANALYZING YOUR REQUEST. LET ME PROVIDE A SIMPLIFIED ANALYSIS: FOR TRAFFIC SOURCE ANALYSIS, I RECOMMEND FOCUSING ON THE TOP 3-5 SOURCES AND EXAMINING THEIR PERFORMANCE OVER THE LAST 7 DAYS TO IDENTIFY ANY UNUSUAL PATTERNS OR SIGNIFICANT CHANGES.", "I ENCOUNTERED A COMPLEXITY ISSUE WHILE ANALYZING YOUR REQUEST. LET ME PROVIDE A SIMPLIFIED ANALYSIS: FOR TRAFFIC SOURCE ANALYSIS, I RECOMMEND FOCUSING ON THE TOP 3-5 SOURCES AND EXAMINING THEIR PERFORMANCE OVER THE LAST 7 DAYS TO IDENTIFY ANY UNUSUAL PATTERNS OR SIGNIFICANT CHANGES.", "i encountered a complexity issue while analyzing your request. let me provide a simplified analysis: for traffic source analysis, i recommend focusing on the top 3-5 sources and examining their performance over the last 7 days to identify any unusual patterns or significant changes.",
    "I encountered a complexity issue while analyzing your request. Let me provide a simplified analysis: For traffic source analysis, I recommend focusing on the top 3-5 sources and examining their performance over the last 7 days to identify any unusual patterns or significant changes.", "I ENCOUNTERED A COMPLEXITY ISSUE WHILE ANALYZING YOUR REQUEST. LET ME PROVIDE A SIMPLIFIED ANALYSIS: FOR TRAFFIC SOURCE ANALYSIS, I RECOMMEND FOCUSING ON THE TOP 3-5 SOURCES AND EXAMINING THEIR PERFORMANCE OVER THE LAST 7 DAYS TO IDENTIFY ANY UNUSUAL PATTERNS OR SIGNIFICANT CHANGES.", "i encountered a complexity issue while analyzing your request. let me provide a simplified analysis: for traffic source analysis, i recommend focusing on the top 3-5 sources and examining their performance over the last 7 days to identify any unusual patterns or significant changes.",
    "i encountered a complexity issue while analyzing your request. let me provide a simplified analysis: for traffic source analysis, i recommend focusing on the top 3-5 sources and examining their performance over the last 7 days to identify any unusual patterns or significant changes.", "I ENCOUNTERED A COMPLEXITY ISSUE WHILE ANALYZING YOUR REQUEST. LET ME PROVIDE A SIMPLIFIED ANALYSIS: FOR TRAFFIC SOURCE ANALYSIS, I RECOMMEND FOCUSING ON THE TOP 3-5 SOURCES AND EXAMINING THEIR PERFORMANCE OVER THE LAST 7 DAYS TO IDENTIFY ANY UNUSUAL PATTERNS OR SIGNIFICANT CHANGES.", "i encountered a complexity issue while analyzing your request. let me provide a simplified analysis: for traffic source analysis, i recommend focusing on the top 3-5 sources and examining their performance over the last 7 days to identify any unusual patterns or significant changes.",
    "I ENCOUNTERED AN ISSUE WHILE ANALYZING YOUR REQUEST. THIS MIGHT BE DUE TO BIGQUERY CONNECTION ISSUES OR QUERY COMPLEXITY. FOR TRAFFIC SOURCE ANALYSIS, I RECOMMEND EXAMINING RECENT DATA PATTERNS AND COMPARING CURRENT METRICS WITH HISTORICAL AVERAGES TO IDENTIFY ANOMALIES.", "I ENCOUNTERED AN ISSUE WHILE ANALYZING YOUR REQUEST. THIS MIGHT BE DUE TO BIGQUERY CONNECTION ISSUES OR QUERY COMPLEXITY. FOR TRAFFIC SOURCE ANALYSIS, I RECOMMEND EXAMINING RECENT DATA PATTERNS AND COMPARING CURRENT METRICS WITH HISTORICAL AVERAGES TO IDENTIFY ANOMALIES.", "i encountered an issue while analyzing your request. this might be due to bigquery connection issues or query complexity. for traffic source analysis, i recommend examining recent data patterns and comparing current metrics with historical averages to identify anomalies.",
    "I encountered an issue while analyzing your request. This might be due to BigQuery connection issues or query complexity. For traffic source analysis, I recommend examining recent data patterns and comparing current metrics with historical averages to identify anomalies.", "I ENCOUNTERED AN ISSUE WHILE ANALYZING YOUR REQUEST. THIS MIGHT BE DUE TO BIGQUERY CONNECTION ISSUES OR QUERY COMPLEXITY. FOR TRAFFIC SOURCE ANALYSIS, I RECOMMEND EXAMINING RECENT DATA PATTERNS AND COMPARING CURRENT METRICS WITH HISTORICAL AVERAGES TO IDENTIFY ANOMALIES.", "i encountered an issue while analyzing your request. this might be due to bigquery connection issues or query complexity. for traffic source analysis, i recommend examining recent data patterns and comparing current metrics with historical averages to identify anomalies.",
    "i encountered an issue while analyzing your request. this might be due to bigquery connection issues or query complexity. for traffic source analysis, i recommend examining recent data patterns and comparing current metrics with historical averages to identify anomalies.", "I ENCOUNTERED AN ISSUE WHILE ANALYZING YOUR REQUEST. THIS MIGHT BE DUE TO BIGQUERY CONNECTION ISSUES OR QUERY COMPLEXITY. FOR TRAFFIC SOURCE ANALYSIS, I RECOMMEND EXAMINING RECENT DATA PATTERNS AND COMPARING CURRENT METRICS WITH HISTORICAL AVERAGES TO IDENTIFY ANOMALIES.", "i encountered an issue while analyzing your request. this might be due to bigquery connection issues or query complexity. for traffic source analysis, i recommend examining recent data patterns and comparing current metrics with historical averages to identify anomalies.",
    "I FOUND RELEVANT INFORMATION BUT NEED TO REVIEW IT FOR COMPLIANCE.", "I FOUND RELEVANT INFORMATION BUT NEED TO REVIEW IT FOR COMPLIANCE.", "i found relevant information but need to review it for compliance.",
    "I found relevant information but need to review it for compliance.", "I FOUND RELEVANT INFORMATION BUT NEED TO REVIEW IT FOR COMPLIANCE.", "i found relevant information but need to review it for compliance.",
    "i found relevant information but need to review it for compliance.", "I FOUND RELEVANT INFORMATION BUT NEED TO REVIEW IT FOR COMPLIANCE.", "i found relevant information but need to review it for compliance.",
    "I GENERATED A DATA ANALYSIS BUT NEED TO REVIEW IT FOR SECURITY COMPLIANCE.", "I GENERATED A DATA ANALYSIS BUT NEED TO REVIEW IT FOR SECURITY COMPLIANCE.", "i generated a data analysis but need to review it for security compliance.",
    "I generated a data analysis but need to review it for security compliance.", "I GENERATED A DATA ANALYSIS BUT NEED TO REVIEW IT FOR SECURITY COMPLIANCE.", "i generated a data analysis but need to review it for security compliance.",
    "i generated a data analysis but need to review it for security compliance.", "I GENERATED A DATA ANALYSIS BUT NEED TO REVIEW IT FOR SECURITY COMPLIANCE.", "i generated a data analysis but need to review it for security compliance.",
    "I WAS UNABLE TO PROCESS YOUR QUERY SUCCESSFULLY.", "I WAS UNABLE TO PROCESS YOUR QUERY SUCCESSFULLY.", "i was unable to process your query successfully.",
    "I was unable to process your query successfully.", "I WAS UNABLE TO PROCESS YOUR QUERY SUCCESSFULLY.", "i was unable to process your query successfully.",
    "i was unable to process your query successfully.", "I WAS UNABLE TO PROCESS YOUR QUERY SUCCESSFULLY.", "i was unable to process your query successfully.",
    "I'LL COORDINATE THE RESPONSE TO GIVE COMPREHENSIVE INSIGHTS", "I'LL COORDINATE THE RESPONSE TO GIVE COMPREHENSIVE INSIGHTS", "i'll coordinate the response to give comprehensive insights",
    "I'll coordinate the response to give comprehensive insights", "I'LL COORDINATE THE RESPONSE TO GIVE COMPREHENSIVE INSIGHTS", "i'll coordinate the response to give comprehensive insights",
    "i'll coordinate the response to give comprehensive insights", "I'LL COORDINATE THE RESPONSE TO GIVE COMPREHENSIVE INSIGHTS", "i'll coordinate the response to give comprehensive insights",
    "I'M CURRENTLY EXPERIENCING TECHNICAL DIFFICULTIES ACCESSING THE KNOWLEDGE BASE, BUT I CAN PROVIDE GENERAL RETAIL GUIDANCE BASED ON INDUSTRY STANDARDS.", "I'M CURRENTLY EXPERIENCING TECHNICAL DIFFICULTIES ACCESSING THE KNOWLEDGE BASE, BUT I CAN PROVIDE GENERAL RETAIL GUIDANCE BASED ON INDUSTRY STANDARDS.", "i'm currently experiencing technical difficulties accessing the knowledge base, but i can provide general retail guidance based on industry standards.",
    "I'm currently experiencing technical difficulties accessing the knowledge base, but I can provide general retail guidance based on industry standards.", "I'M CURRENTLY EXPERIENCING TECHNICAL DIFFICULTIES ACCESSING THE KNOWLEDGE BASE, BUT I CAN PROVIDE GENERAL RETAIL GUIDANCE BASED ON INDUSTRY STANDARDS.", "i'm currently experiencing technical difficulties accessing the knowledge base, but i can provide general retail guidance based on industry standards.",
    "i'm currently experiencing technical difficulties accessing the knowledge base, but i can provide general retail guidance based on industry standards.", "I'M CURRENTLY EXPERIENCING TECHNICAL DIFFICULTIES ACCESSING THE KNOWLEDGE BASE, BUT I CAN PROVIDE GENERAL RETAIL GUIDANCE BASED ON INDUSTRY STANDARDS.", "i'm currently experiencing technical difficulties accessing the knowledge base, but i can provide general retail guidance based on industry standards.",
    "I'M CURRENTLY UNABLE TO ACCESS THE DATABASE, BUT I CAN PROVIDE GENERAL GUIDANCE ON RETAIL DATA ANALYSIS AND KPI TRACKING.", "I'M CURRENTLY UNABLE TO ACCESS THE DATABASE, BUT I CAN PROVIDE GENERAL GUIDANCE ON RETAIL DATA ANALYSIS AND KPI TRACKING.", "i'm currently unable to access the database, but i can provide general guidance on retail data analysis and kpi tracking.",
    "I'm currently unable to access the database, but I can provide general guidance on retail data analysis and KPI tracking.", "I'M CURRENTLY UNABLE TO ACCESS THE DATABASE, BUT I CAN PROVIDE GENERAL GUIDANCE ON RETAIL DATA ANALYSIS AND KPI TRACKING.", "i'm currently unable to access the database, but i can provide general guidance on retail data analysis and kpi tracking.",
    "i'm currently unable to access the database, but i can provide general guidance on retail data analysis and kpi tracking.", "I'M CURRENTLY UNABLE TO ACCESS THE DATABASE, BUT I CAN PROVIDE GENERAL GUIDANCE ON RETAIL DATA ANALYSIS AND KPI TRACKING.", "i'm currently unable to access the database, but i can provide general guidance on retail data analysis and kpi tracking.",
    "I'VE ANALYZED MULTIPLE DATA SOURCES BUT NEED TO REVIEW THE RESPONSE FOR COMPLIANCE.", "I'VE ANALYZED MULTIPLE DATA SOURCES BUT NEED TO REVIEW THE RESPONSE FOR COMPLIANCE.", "i've analyzed multiple data sources but need to review the response for compliance.",
    "I've analyzed multiple data sources but need to review the response for compliance.", "I'VE ANALYZED MULTIPLE DATA SOURCES BUT NEED TO REVIEW THE RESPONSE FOR COMPLIANCE.", "i've analyzed multiple data sources but need to review the response for compliance.",
    "i've analyzed multiple data sources but need to review the response for compliance.", "I'VE ANALYZED MULTIPLE DATA SOURCES BUT NEED TO REVIEW THE RESPONSE FOR COMPLIANCE.", "i've analyzed multiple data sources but need to review the response for compliance.",
    "I'VE GENERATED A RESPONSE BUT IT NEEDS REVIEW FOR SAFETY COMPLIANCE.", "I'VE GENERATED A RESPONSE BUT IT NEEDS REVIEW FOR SAFETY COMPLIANCE.", "i've generated a response but it needs review for safety compliance.",
    "I've generated a response but it needs review for safety compliance.", "I'VE GENERATED A RESPONSE BUT IT NEEDS REVIEW FOR SAFETY COMPLIANCE.", "i've generated a response but it needs review for safety compliance.",
    "i've generated a response but it needs review for safety compliance.", "I'VE GENERATED A RESPONSE BUT IT NEEDS REVIEW FOR SAFETY COMPLIANCE.", "i've generated a response but it needs review for safety compliance.",
    "ID", "ID", "id",
    "id", "ID", "id",
    "IDLE", "IDLE", "idle",
    "idle", "IDLE", "idle",
    "INDUSTRY GUIDELINES", "INDUSTRY GUIDELINES", "industry guidelines",
    "Industry Guidelines", "INDUSTRY GUIDELINES", "industry guidelines",
    "industry guidelines", "INDUSTRY GUIDELINES", "industry guidelines",
    "INFORMATION_SCHEMA.TABLES", "INFORMATION_SCHEMA.TABLES", "information_schema.tables",
    "information_schema.tables", "INFORMATION_SCHEMA.TABLES", "information_schema.tables",
    "INJECTION", "INJECTION", "injection",
    "injection", "INJECTION", "injection",
    "INSERT", "INSERT", "insert",
    "insert", "INSERT", "insert",
    "INSIGHTS:", "INSIGHTS:", "insights:",
    "insights:", "INSIGHTS:", "insights:",
    "INTEGER", "INTEGER", "integer",
    "integer", "INTEGER", "integer",
    "INTERVAL 30 DAY", "INTERVAL 30 DAY", "interval 30 day",
    "interval 30 day", "INTERVAL 30 DAY", "interval 30 day",
    "INTERVAL 7 DAY", "INTERVAL 7 DAY", "interval 7 day",
    "interval 7 day", "INTERVAL 7 DAY", "interval 7 day",
    "INVENTORY", "INVENTORY", "inventory",
    "inventory", "INVENTORY", "inventory",
    "JSON", "JSON", "json",
    "json", "JSON", "json",
    "LIMIT", "LIMIT", "limit",
    "limit", "LIMIT", "limit",
    "LOYAL", "LOYAL", "loyal",
    "loyal", "LOYAL", "loyal",
    "MARKET ANALYSIS REPORTS", "MARKET ANALYSIS REPORTS", "market analysis reports",
    "Market Analysis Reports", "MARKET ANALYSIS REPORTS", "market analysis reports",
    "market analysis reports", "MARKET ANALYSIS REPORTS", "market analysis reports",
    "MERGE THE PARTS", "MERGE THE PARTS", "merge the parts",
    "merge the parts", "MERGE THE PARTS", "merge the parts",
    "METRIC", "METRIC", "metric",
    "metric", "METRIC", "metric",
    "METRICS", "METRICS", "metrics",
    "metrics", "METRICS", "metrics",
    "MODEL", "MODEL", "model",
    "model", "MODEL", "model",
    "MORE", "MORE", "more",
    "more", "MORE", "more",
    "MS", "MS", "ms",
    "ms", "MS", "ms",
    "MULTI-AGENT SYNTHESIS COMPLETED IN ", "MULTI-AGENT SYNTHESIS COMPLETED IN ", "multi-agent synthesis completed in ",
    "Multi-agent synthesis completed in ", "MULTI-AGENT SYNTHESIS COMPLETED IN ", "multi-agent synthesis completed in ",
    "multi-agent synthesis completed in ", "MULTI-AGENT SYNTHESIS COMPLETED IN ", "multi-agent synthesis completed in ",
    "NETWORK DOWN", "NETWORK DOWN", "network down",
    "network down", "NETWORK DOWN", "network down",
    "NO DATA MATCHED", "NO DATA MATCHED", "no data matched",
    "No data matched", "NO DATA MATCHED", "no data matched",
    "no data matched", "NO DATA MATCHED", "no data matched",
    "NO MATCHING DATA", "NO MATCHING DATA", "no matching data",
    "No matching data", "NO MATCHING DATA", "no matching data",
    "no matching data", "NO MATCHING DATA", "no matching data",
    "NO RESULTS", "NO RESULTS", "no results",
    "No results", "NO RESULTS", "no results",
    "no results", "NO RESULTS", "no results",
    "NO ROWS", "NO ROWS", "no rows",
    "No rows", "NO ROWS", "no rows",
    "no rows", "NO ROWS", "no rows",
    "NOJSON", "NOJSON", "nojson",
    "nojson", "NOJSON", "nojson",
    "NONE", "NONE", "none",
    "none", "NONE", "none",
    "NULL", "NULL", "null",
    "null", "NULL", "null",
    "NULLABLE", "NULLABLE", "nullable",
    "nullable", "NULLABLE", "nullable",
    "NUMBER", "NUMBER", "number",
    "number", "NUMBER", "number",
    "OBSERVATION", "OBSERVATION", "observation",
    "observation", "OBSERVATION", "observation",
    "OFF", "OFF", "off",
    "off", "OFF", "off",
    "OK", "OK", "ok",
    "ok", "OK", "ok",
    "ORDER", "ORDER", "order",
    "order", "ORDER", "order",
    "ORDER_ITEMS", "ORDER_ITEMS", "order_items",
    "order_items", "ORDER_ITEMS", "order_items",
    "OTHER", "OTHER", "other",
    "other", "OTHER", "other",
    "PASSWORD", "PASSWORD", "password",
    "Password", "PASSWORD", "password",
    "password", "PASSWORD", "password",
    "PERFORMREACT", "PERFORMREACT", "performreact",
    "performReAct", "PERFORMREACT", "performreact",
    "performreact", "PERFORMREACT", "performreact",
    "PERIOD", "PERIOD", "period",
    "period", "PERIOD", "period",
    "PII", "PII", "pii",
    "pii", "PII", "pii",
    "POLICY", "POLICY", "policy",
    "policy", "POLICY", "policy",
    "POTENTIALLY UNSAFE CONTENT DETECTED: ", "POTENTIALLY UNSAFE CONTENT DETECTED: ", "potentially unsafe content detected: ",
    "Potentially unsafe content detected: ", "POTENTIALLY UNSAFE CONTENT DETECTED: ", "potentially unsafe content detected: ",
    "potentially unsafe content detected: ", "POTENTIALLY UNSAFE CONTENT DETECTED: ", "potentially unsafe content detected: ",
    "PRACTICE", "PRACTICE", "practice",
    "practice", "PRACTICE", "practice",
    "PRODUCT", "PRODUCT", "product",
    "product", "PRODUCT", "product",
    "PRODUCT DOCUMENTATION", "PRODUCT DOCUMENTATION", "product documentation",
    "Product Documentation", "PRODUCT DOCUMENTATION", "product documentation",
    "product documentation", "PRODUCT DOCUMENTATION", "product documentation",
    "PRODUCTS", "PRODUCTS", "products",
    "products", "PRODUCTS", "products",
    "PROJECT.DATASET.", "PROJECT.DATASET.", "project.dataset.",
    "project.dataset.", "PROJECT.DATASET.", "project.dataset.",
    "QUERY EXCEEDED LIMIT FOR ", "QUERY EXCEEDED LIMIT FOR ", "query exceeded limit for ",
    "Query exceeded limit for ", "QUERY EXCEEDED LIMIT FOR ", "query exceeded limit for ",
    "query exceeded limit for ", "QUERY EXCEEDED LIMIT FOR ", "query exceeded limit for ",
    "QUERY EXECUTED SUCCESSFULLY BUT RETURNED NO RESULTS.", "QUERY EXECUTED SUCCESSFULLY BUT RETURNED NO RESULTS.", "query executed successfully but returned no results.",
    "Query executed successfully but returned no results.", "QUERY EXECUTED SUCCESSFULLY BUT RETURNED NO RESULTS.", "query executed successfully but returned no results.",
    "query executed successfully but returned no results.", "QUERY EXECUTED SUCCESSFULLY BUT RETURNED NO RESULTS.", "query executed successfully but returned no results.",
    "QUERY EXECUTION FAILED", "QUERY EXECUTION FAILED", "query execution failed",
    "Query execution failed", "QUERY EXECUTION FAILED", "query execution failed",
    "query execution failed", "QUERY EXECUTION FAILED", "query execution failed",
    "QUERY EXECUTION FAILED WITH SYNTAX ERROR: ", "QUERY EXECUTION FAILED WITH SYNTAX ERROR: ", "query execution failed with syntax error: ",
    "Query execution failed with syntax error: ", "QUERY EXECUTION FAILED WITH SYNTAX ERROR: ", "query execution failed with syntax error: ",
    "query execution failed with syntax error: ", "QUERY EXECUTION FAILED WITH SYNTAX ERROR: ", "query execution failed with syntax error: ",
    "QUERY EXECUTION FAILED: ", "QUERY EXECUTION FAILED: ", "query execution failed: ",
    "Query execution failed: ", "QUERY EXECUTION FAILED: ", "query execution failed: ",
    "query execution failed: ", "QUERY EXECUTION FAILED: ", "query execution failed: ",
    "QUERY EXECUTION FAILED: QUERY TOO EXPENSIVE. PLEASE USE SMALLER TABLES LIKE 'ORDER_ITEMS' OR 'USERS' INSTEAD OF 'EVENTS' TABLE. ADD RECENT DATE FILTERS (E.G., WHERE CREATED_AT >= TIMESTAMP_SUB(CURRENT_TIMESTAMP(), INTERVAL 7 DAY)) AND USE LIMIT 10.", "QUERY EXECUTION FAILED: QUERY TOO EXPENSIVE. PLEASE USE SMALLER TABLES LIKE 'ORDER_ITEMS' OR 'USERS' INSTEAD OF 'EVENTS' TABLE. ADD RECENT DATE FILTERS (E.G., WHERE CREATED_AT >= TIMESTAMP_SUB(CURRENT_TIMESTAMP(), INTERVAL 7 DAY)) AND USE LIMIT 10.", "query execution failed: query too expensive. please use smaller tables like 'order_items' or 'users' instead of 'events' table. add recent date filters (e.g., where created_at >= timestamp_sub(current_timestamp(), interval 7 day)) and use limit 10.",
    "Query execution failed: Query too expensive. Please use smaller tables like 'order_items' or 'users' instead of 'events' table. Add recent date filters (e.g., WHERE created_at >= TIMESTAMP_SUB(CURRENT_TIMESTAMP(), INTERVAL 7 DAY)) and use LIMIT 10.", "QUERY EXECUTION FAILED: QUERY TOO EXPENSIVE. PLEASE USE SMALLER TABLES LIKE 'ORDER_ITEMS' OR 'USERS' INSTEAD OF 'EVENTS' TABLE. ADD RECENT DATE FILTERS (E.G., WHERE CREATED_AT >= TIMESTAMP_SUB(CURRENT_TIMESTAMP(), INTERVAL 7 DAY)) AND USE LIMIT 10.", "query execution failed: query too expensive. please use smaller tables like 'order_items' or 'users' instead of 'events' table. add recent date filters (e.g., where created_at >= timestamp_sub(current_timestamp(), interval 7 day)) and use limit 10.",
    "query execution failed: query too expensive. please use smaller tables like 'order_items' or 'users' instead of 'events' table. add recent date filters (e.g., where created_at >= timestamp_sub(current_timestamp(), interval 7 day)) and use limit 10.", "QUERY EXECUTION FAILED: QUERY TOO EXPENSIVE. PLEASE USE SMALLER TABLES LIKE 'ORDER_ITEMS' OR 'USERS' INSTEAD OF 'EVENTS' TABLE. ADD RECENT DATE FILTERS (E.G., WHERE CREATED_AT >= TIMESTAMP_SUB(CURRENT_TIMESTAMP(), INTERVAL 7 DAY)) AND USE LIMIT 10.", "query execution failed: query too expensive. please use smaller tables like 'order_items' or 'users' instead of 'events' table. add recent date filters (e.g., where created_at >= timestamp_sub(current_timestamp(), interval 7 day)) and use limit 10.",
    "QUERY EXECUTION FAILED: TABLESAMPLE SYNTAX ERROR. THE CORRECT SYNTAX IS: FROM TABLE_NAME TABLESAMPLE SYSTEM (1 PERCENT) AS ALIAS. PLEASE REWRITE THE QUERY WITHOUT TABLESAMPLE AND USE LIMIT 10 INSTEAD FOR SAMPLING.", "QUERY EXECUTION FAILED: TABLESAMPLE SYNTAX ERROR. THE CORRECT SYNTAX IS: FROM TABLE_NAME TABLESAMPLE SYSTEM (1 PERCENT) AS ALIAS. PLEASE REWRITE THE QUERY WITHOUT TABLESAMPLE AND USE LIMIT 10 INSTEAD FOR SAMPLING.", "query execution failed: tablesample syntax error. the correct syntax is: from table_name tablesample system (1 percent) as alias. please rewrite the query without tablesample and use limit 10 instead for sampling.",
    "Query execution failed: TABLESAMPLE syntax error. The correct syntax is: FROM table_name TABLESAMPLE SYSTEM (1 PERCENT) AS alias. Please rewrite the query without TABLESAMPLE and use LIMIT 10 instead for sampling.", "QUERY EXECUTION FAILED: TABLESAMPLE SYNTAX ERROR. THE CORRECT SYNTAX IS: FROM TABLE_NAME TABLESAMPLE SYSTEM (1 PERCENT) AS ALIAS. PLEASE REWRITE THE QUERY WITHOUT TABLESAMPLE AND USE LIMIT 10 INSTEAD FOR SAMPLING.", "query execution failed: tablesample syntax error. the correct syntax is: from table_name tablesample system (1 percent) as alias. please rewrite the query without tablesample and use limit 10 instead for sampling.",
    "query execution failed: tablesample syntax error. the correct syntax is: from table_name tablesample system (1 percent) as alias. please rewrite the query without tablesample and use limit 10 instead for sampling.", "QUERY EXECUTION FAILED: TABLESAMPLE SYNTAX ERROR. THE CORRECT SYNTAX IS: FROM TABLE_NAME TABLESAMPLE SYSTEM (1 PERCENT) AS ALIAS. PLEASE REWRITE THE QUERY WITHOUT TABLESAMPLE AND USE LIMIT 10 INSTEAD FOR SAMPLING.", "query execution failed: tablesample syntax error. the correct syntax is: from table_name tablesample system (1 percent) as alias. please rewrite the query without tablesample and use limit 10 instead for sampling.",
    "QUERY RETURNED ", "QUERY RETURNED ", "query returned ",
    "Query returned ", "QUERY RETURNED ", "query returned ",
    "query returned ", "QUERY RETURNED ", "query returned ",
    "QUERY SHOULD START WITH SELECT. CURRENT QUERY: ", "QUERY SHOULD START WITH SELECT. CURRENT QUERY: ", "query should start with select. current query: ",
    "Query should start with SELECT. Current query: ", "QUERY SHOULD START WITH SELECT. CURRENT QUERY: ", "query should start with select. current query: ",
    "query should start with select. current query: ", "QUERY SHOULD START WITH SELECT. CURRENT QUERY: ", "query should start with select. current query: ",
    "QUERY TOO COMPLEX, HITTING RECURSION LIMIT", "QUERY TOO COMPLEX, HITTING RECURSION LIMIT", "query too complex, hitting recursion limit",
    "Query too complex, hitting recursion limit", "QUERY TOO COMPLEX, HITTING RECURSION LIMIT", "query too complex, hitting recursion limit",
    "query too complex, hitting recursion limit", "QUERY TOO COMPLEX, HITTING RECURSION LIMIT", "query too complex, hitting recursion limit",
    "RAG", "RAG", "rag",
    "rag", "RAG", "rag",
    "RAG_AGENT", "RAG_AGENT", "rag_agent",
    "rag_agent", "RAG_AGENT", "rag_agent",
    "RAISE", "RAISE", "raise",
    "raise", "RAISE", "raise",
    "RAISED", "RAISED", "raised",
    "raised", "RAISED", "raised",
    "RECENT", "RECENT", "recent",
    "recent", "RECENT", "recent",
    "RECOMMENDATION", "RECOMMENDATION", "recommendation",
    "recommendation", "RECOMMENDATION", "recommendation",
    "RECOMMENDATIONS:", "RECOMMENDATIONS:", "recommendations:",
    "recommendations:", "RECOMMENDATIONS:", "recommendations:",
    "RECURSION LIMIT", "RECURSION LIMIT", "recursion limit",
    "recursion limit", "RECURSION LIMIT", "recursion limit",
    "RECURSION LIMIT OF 15 REACHED", "RECURSION LIMIT OF 15 REACHED", "recursion limit of 15 reached",
    "Recursion limit of 15 reached", "RECURSION LIMIT OF 15 REACHED", "recursion limit of 15 reached",
    "recursion limit of 15 reached", "RECURSION LIMIT OF 15 REACHED", "recursion limit of 15 reached",
    "REFLECTION", "REFLECTION", "reflection",
    "reflection", "REFLECTION", "reflection",
    "REORDER_POINT", "REORDER_POINT", "reorder_point",
    "reorder_point", "REORDER_POINT", "reorder_point",
    "REQUIRED", "REQUIRED", "required",
    "required", "REQUIRED", "required",
    "RESTOCK", "RESTOCK", "restock",
    "restock", "RESTOCK", "restock",
    "RETAIL BEST PRACTICES DATABASE", "RETAIL BEST PRACTICES DATABASE", "retail best practices database",
    "Retail Best Practices Database", "RETAIL BEST PRACTICES DATABASE", "retail best practices database",
    "retail best practices database", "RETAIL BEST PRACTICES DATABASE", "retail best practices database",
    "RETAIL DATABASE SCHEMA (MOCK DATA)", "RETAIL DATABASE SCHEMA (MOCK DATA)", "retail database schema (mock data)",
    "RETAIL DATABASE SCHEMA (Mock Data)", "RETAIL DATABASE SCHEMA (MOCK DATA)", "retail database schema (mock data)",
    "retail database schema (mock data)", "RETAIL DATABASE SCHEMA (MOCK DATA)", "retail database schema (mock data)",
    "RETENTION_RATE", "RETENTION_RATE", "retention_rate",
    "retention_rate", "RETENTION_RATE", "retention_rate",
    "RETRIEVED INFORMATION FROM RETAIL KNOWLEDGE BASE AND APPLIED INDUSTRY BEST PRACTICES", "RETRIEVED INFORMATION FROM RETAIL KNOWLEDGE BASE AND APPLIED INDUSTRY BEST PRACTICES", "retrieved information from retail knowledge base and applied industry best practices",
    "Retrieved information from retail knowledge base and applied industry best practices", "RETRIEVED INFORMATION FROM RETAIL KNOWLEDGE BASE AND APPLIED INDUSTRY BEST PRACTICES", "retrieved information from retail knowledge base and applied industry best practices",
    "retrieved information from retail knowledge base and applied industry best practices", "RETRIEVED INFORMATION FROM RETAIL KNOWLEDGE BASE AND APPLIED INDUSTRY BEST PRACTICES", "retrieved information from retail knowledge base and applied industry best practices",
    "RETURNED", "RETURNED", "returned",
    "returned", "RETURNED", "returned",
    "RETURNS", "RETURNS", "returns",
    "returns", "RETURNS", "returns",
    "REVENUE", "REVENUE", "revenue",
    "Revenue", "REVENUE", "revenue",
    "revenue", "REVENUE", "revenue",
    "ROW ", "ROW ", "row ",
    "Row ", "ROW ", "row ",
    "row ", "ROW ", "row ",
    "ROWS", "ROWS", "rows",
    "rows", "ROWS", "rows",
    "SAFETY", "SAFETY", "safety",
    "safety", "SAFETY", "safety",
    "SALES", "SALES", "sales",
    "Sales", "SALES", "sales",
    "sales", "SALES", "sales",
    "SCHEMA", "SCHEMA", "schema",
    "schema", "SCHEMA", "schema",
    "SEGMENT", "SEGMENT", "segment",
    "segment", "SEGMENT", "segment",
    "SELECT", "SELECT", "select",
    "select", "SELECT", "select",
    "SHOW", "SHOW", "show",
    "show", "SHOW", "show",
    "SIMULATED", "SIMULATED", "simulated",
    "Simulated", "SIMULATED", "simulated",
    "simulated", "SIMULATED", "simulated",
    "SINGLE AGENT RESPONSE SYNTHESIS", "SINGLE AGENT RESPONSE SYNTHESIS", "single agent response synthesis",
    "Single agent response synthesis", "SINGLE AGENT RESPONSE SYNTHESIS", "single agent response synthesis",
    "single agent response synthesis", "SINGLE AGENT RESPONSE SYNTHESIS", "single agent response synthesis",
    "SIZES", "SIZES", "sizes",
    "sizes", "SIZES", "sizes",
    "SQL", "SQL", "sql",
    "sql", "SQL", "sql",
    "SQL_AGENT", "SQL_AGENT", "sql_agent",
    "sql_agent", "SQL_AGENT", "sql_agent",
    "SQL_DATABASE", "SQL_DATABASE", "sql_database",
    "SQL_Database", "SQL_DATABASE", "sql_database",
    "sql_database", "SQL_DATABASE", "sql_database",
    "SQL_DATABASE_SIMULATOR", "SQL_DATABASE_SIMULATOR", "sql_database_simulator",
    "SQL_Database_Simulator", "SQL_DATABASE_SIMULATOR", "sql_database_simulator",
    "sql_database_simulator", "SQL_DATABASE_SIMULATOR", "sql_database_simulator",
    "SQL_DB_LIST_TABLES", "SQL_DB_LIST_TABLES", "sql_db_list_tables",
    "sql_db_list_tables", "SQL_DB_LIST_TABLES", "sql_db_list_tables",
    "SQL_DB_QUERY", "SQL_DB_QUERY", "sql_db_query",
    "sql_db_query", "SQL_DB_QUERY", "sql_db_query",
    "SQL_DB_QUERY_CHECKER", "SQL_DB_QUERY_CHECKER", "sql_db_query_checker",
    "sql_db_query_checker", "SQL_DB_QUERY_CHECKER", "sql_db_query_checker",
    "SQL_DB_SCHEMA", "SQL_DB_SCHEMA", "sql_db_schema",
    "sql_db_schema", "SQL_DB_SCHEMA", "sql_db_schema",
    "SQL_QUERY:", "SQL_QUERY:", "sql_query:",
    "sql_query:", "SQL_QUERY:", "sql_query:",
    "STEADY", "STEADY", "steady",
    "steady", "STEADY", "steady",
    "STOCK", "STOCK", "stock",
    "stock", "STOCK", "stock",
    "STOCK_LEVEL", "STOCK_LEVEL", "stock_level",
    "stock_level", "STOCK_LEVEL", "stock_level",
    "STRING", "STRING", "string",
    "string", "STRING", "string",
    "SUCCESS", "SUCCESS", "success",
    "success", "SUCCESS", "success",
    "SUM", "SUM", "sum",
    "sum", "SUM", "sum",
    "SUPERVISOR", "SUPERVISOR", "supervisor",
    "supervisor", "SUPERVISOR", "supervisor",
    "SUPERVISOR_REACT", "SUPERVISOR_REACT", "supervisor_react",
    "supervisor_react", "SUPERVISOR_REACT", "supervisor_react",
    "SUPERVISOR_SYNTHESIS", "SUPERVISOR_SYNTHESIS", "supervisor_synthesis",
    "supervisor_synthesis", "SUPERVISOR_SYNTHESIS", "supervisor_synthesis",
    "SYNTAX ERROR", "SYNTAX ERROR", "syntax error",
    "Syntax error", "SYNTAX ERROR", "syntax error",
    "syntax error", "SYNTAX ERROR", "syntax error",
    "SYNTHESIS", "SYNTHESIS", "synthesis",
    "synthesis", "SYNTHESIS", "synthesis",
    "SYNTHESIZE", "SYNTHESIZE", "synthesize",
    "synthesize", "SYNTHESIZE", "synthesize",
    "TABLE", "TABLE", "table",
    "table", "TABLE", "table",
    "TABLE ", "TABLE ", "table ",
    "Table ", "TABLE ", "table ",
    "table ", "TABLE ", "table ",
    "TABLES", "TABLES", "tables",
    "tables", "TABLES", "tables",
    "TABLESAMPLE", "TABLESAMPLE", "tablesample",
    "tablesample", "TABLESAMPLE", "tablesample",
    "TEXT", "TEXT", "text",
    "text", "TEXT", "text",
    "THE USER ASKS FOR FIGURES", "THE USER ASKS FOR FIGURES", "the user asks for figures",
    "the user asks for figures", "THE USER ASKS FOR FIGURES", "the user asks for figures",
    "THOUGHT: ", "THOUGHT: ", "thought: ",
    "thought: ", "THOUGHT: ", "thought: ",
    "THROW", "THROW", "throw",
    "throw", "THROW", "throw",
    "TIMESTAMP_SUB(CURRENT_TIMESTAMP(),", "TIMESTAMP_SUB(CURRENT_TIMESTAMP(),", "timestamp_sub(current_timestamp(),",
    "timestamp_sub(current_timestamp(),", "TIMESTAMP_SUB(CURRENT_TIMESTAMP(),", "timestamp_sub(current_timestamp(),",
    "TO", "TO", "to",
    "to", "TO", "to",
    "TOOLS", "TOOLS", "tools",
    "tools", "TOOLS", "tools",
    "TOTAL", "TOTAL", "total",
    "total", "TOTAL", "total",
    "TOTAL_SALES", "TOTAL_SALES", "total_sales",
    "total_sales", "TOTAL_SALES", "total_sales",
    "TRANSACTIONS", "TRANSACTIONS", "transactions",
    "transactions", "TRANSACTIONS", "transactions",
    "TRUNCATE", "TRUNCATE", "truncate",
    "truncate", "TRUNCATE", "truncate",
    "TURNOVER_RATE", "TURNOVER_RATE", "turnover_rate",
    "turnover_rate", "TURNOVER_RATE", "turnover_rate",
    "UNABLE TO LIST TABLES: ", "UNABLE TO LIST TABLES: ", "unable to list tables: ",
    "Unable to list tables: ", "UNABLE TO LIST TABLES: ", "unable to list tables: ",
    "unable to list tables: ", "UNABLE TO LIST TABLES: ", "unable to list tables: ",
    "UNABLE TO RETRIEVE SCHEMA INFORMATION: ", "UNABLE TO RETRIEVE SCHEMA INFORMATION: ", "unable to retrieve schema information: ",
    "Unable to retrieve schema information: ", "UNABLE TO RETRIEVE SCHEMA INFORMATION: ", "unable to retrieve schema information: ",
    "unable to retrieve schema information: ", "UNABLE TO RETRIEVE SCHEMA INFORMATION: ", "unable to retrieve schema information: ",
    "UNDEFINED", "UNDEFINED", "undefined",
    "undefined", "UNDEFINED", "undefined",
    "UNKNOWN ERROR", "UNKNOWN ERROR", "unknown error",
    "Unknown error", "UNKNOWN ERROR", "unknown error",
    "unknown error", "UNKNOWN ERROR", "unknown error",
    "UNPARSABLE", "UNPARSABLE", "unparsable",
    "unparsable", "UNPARSABLE", "unparsable",
    "UPDATE", "UPDATE", "update",
    "update", "UPDATE", "update",
    "UPDATED_AT", "UPDATED_AT", "updated_at",
    "updated_at", "UPDATED_AT", "updated_at",
    "USE BOTH AGENTS", "USE BOTH AGENTS", "use both agents",
    "use both agents", "USE BOTH AGENTS", "use both agents",
    "USER", "USER", "user",
    "user", "USER", "user",
    "USERS", "USERS", "users",
    "users", "USERS", "users",
    "VALUE", "VALUE", "value",
    "value", "VALUE", "value",
    "VECTORDB_RETRIEVAL", "VECTORDB_RETRIEVAL", "vectordb_retrieval",
    "VectorDB_Retrieval", "VECTORDB_RETRIEVAL", "vectordb_retrieval",
    "vectordb_retrieval", "VECTORDB_RETRIEVAL", "vectordb_retrieval",
    "WEEKLY", "WEEKLY", "weekly",
    "weekly", "WEEKLY", "weekly",
    "WHERE", "WHERE", "where",
    "where", "WHERE", "where",
    "X", "X", "x",
    "x", "X", "x",
    "~PROJECT.DATASET.", "~PROJECT.DATASET.", "~project.dataset.",
    "~project.dataset.", "~PROJECT.DATASET.", "~project.dataset.",
    "~~~SQL", "~~~SQL", "~~~sql",
    "~~~sql", "~~~SQL", "~~~sql"
  >>

upperCased ==
    [t \in {caseForms[3 * i - 2] : i \in 1..(Len(caseForms) \div 3)} |->
        caseForms[3 * (CHOOSE i \in 1..(Len(caseForms) \div 3) : caseForms[3 * i - 2] = t) - 1]]

lowerCased ==
    [t \in {caseForms[3 * i - 2] : i \in 1..(Len(caseForms) \div 3)} |->
        caseForms[3 * (CHOOSE i \in 1..(Len(caseForms) \div 3) : caseForms[3 * i - 2] = t)]]

\* String.prototype.toUpperCase on one token
toUpperCase(t) == IF t \in DOMAIN upperCased THEN upperCased[t] ELSE t

\* String.prototype.toLowerCase on one token
toLowerCase(t) == IF t \in DOMAIN lowerCased THEN lowerCased[t] ELSE t

\* String.prototype.trim
RECURSIVE trimStart(_)
trimStart(s) == IF s # <<>> /\ IsSpace(Head(s)) THEN trimStart(Tail(s)) ELSE s

RECURSIVE trimEnd(_)
trimEnd(s) ==
    IF s # <<>> /\ IsSpace(s[Len(s)]) THEN trimEnd(SubSeq(s, 1, Len(s) - 1)) ELSE s

trim(s) == The({trimEnd(u) : u \in {trimStart(s)}})

\* Array.prototype.join
RECURSIVE join(_, _)
join(items, sep) ==
    IF items = <<>> THEN <<>>
    ELSE IF Len(items) = 1 THEN Head(items)
    ELSE Head(items) \o sep \o join(Tail(items), sep)

\* whether the lower-case token t contains the word w
tokenHas(t, w) ==
    \/ t = w
    \/ <<t, w>> \in {<<"customers", "customer">>, <<"products", "product">>}

\* lower.includes(w) on a lower-cased text: w is one word, or several words
\* with the blanks between them
includes(lower, w) ==
    IF Len(w) = 1
    THEN \E i \in 1..Len(lower) : tokenHas(lower[i], w[1])
    ELSE \E i \in 1..Len(lower) :
            /\ i + Len(w) - 1 <= Len(lower)
            /\ \A k \in 1..Len(w) : lower[i + k - 1] = w[k]

lowerText(s) == [i \in 1..Len(s) |-> toLowerCase(s[i])]

\* /A\s+B/i
MatchesPair(s, a, b) ==
    \E i \in 1..Len(s), j \in 1..Len(s) :
        /\ i + 1 < j
        /\ toUpperCase(s[i]) = a
        /\ toUpperCase(s[j]) = b
        /\ \A k \in (i + 1)..(j - 1) : IsSpace(s[k])

\* /a/i
MatchesWord(s, a) == \E i \in 1..Len(s) : toUpperCase(s[i]) = a

SetMin(S) == CHOOSE x \in S : \A y \in S : x <= y

\* ------------------------------------------------------ RetailSafetyFilter

\* A reply of the classifier model to checkQuery: it raises, returns text
\* that JSON.parse rejects (or parses to null), or returns JSON whose fields
\* safe, score and issues are each present or not; issues is an array of
\* texts or some other JSON value.
IssuesAbsent == [kind |-> "absent", items |-> <<>>]
IssuesArray(items) == [kind |-> "array", items |-> items]
IssuesOther == [kind |-> "other", items |-> <<>>]

SafetyJson(safe, score, issues) ==
    [kind |-> "json", safe |-> safe, score |-> score, issues |-> issues]
SafetyRaise == [kind |-> "raise", safe |-> None, score |-> None, issues |-> IssuesAbsent]
SafetyUnparsable ==
    [kind |-> "unparsable", safe |-> None, score |-> None, issues |-> IssuesAbsent]

\* a classifier that fails closed: a raise or an unparsable reply rejects
checkQueryFailClosed(reply) ==
    CASE reply.kind = "raise" ->
            [safe |-> FALSE, score |-> 700, issues |-> IssuesArray(<<>>)]
      [] reply.kind = "unparsable" ->
            [safe |-> FALSE, score |-> 800, issues |-> IssuesArray(<<>>)]
      [] OTHER ->
            [safe |-> IF reply.safe = None THEN TRUE ELSE reply.safe[1],
             score |-> IF reply.score = None THEN 900 ELSE reply.score[1],
             issues |-> IF reply.issues.kind = "absent"
                        THEN IssuesArray(<<>>) ELSE reply.issues]

checkQuery(reply) ==
    CASE reply.kind = "raise" ->
            [safe |-> TRUE, score |-> 700, issues |-> IssuesAbsent]
      [] reply.kind = "unparsable" ->
            [safe |-> TRUE, score |-> 800, issues |-> IssuesAbsent]
      [] OTHER ->
            [safe |-> IF reply.safe = None THEN TRUE ELSE reply.safe[1],
             score |-> IF reply.score = None THEN 900 ELSE reply.score[1],
             issues |-> IF reply.issues.kind = "absent"
                        THEN IssuesArray(<<>>) ELSE reply.issues]

prohibitedPatterns ==
    <<"/DROP\\s+TABLE/i", "/DELETE\\s+FROM/i", "/password/i", "/confidential/i">>

patternTest(p, s) ==
    CASE p = 1 -> MatchesPair(s, "DROP", "TABLE")
      [] p = 2 -> MatchesPair(s, "DELETE", "FROM")
      [] p = 3 -> MatchesWord(s, "PASSWORD")
      [] p = 4 -> MatchesWord(s, "CONFIDENTIAL")

\* an output filter whose score stops falling at 0.4
checkResponseFloored(response) ==
    LET hit(p) == patternTest(p, response)
        matched == SelectSeq(<<1, 2, 3, 4>>, hit)
        issues == [i \in 1..Len(matched) |->
                     <<"Potentially unsafe content detected: ",
                       prohibitedPatterns[matched[i]]>>]
        safe == Len(issues) = 0
    IN  [safe |-> safe,
         score |-> IF safe THEN 950 ELSE MathMax(400, 950 - Len(issues) * 200),
         issues |-> IssuesArray(issues)]

checkResponse(response) ==
    LET hit(p) == patternTest(p, response)
        matched == SelectSeq(<<1, 2, 3, 4>>, hit)
        issues == [i \in 1..Len(matched) |->
                     <<"Potentially unsafe content detected: ",
                       prohibitedPatterns[matched[i]]>>]
        safe == Len(issues) = 0
    IN  [safe |-> safe,
         score |-> IF safe THEN 950 ELSE MathMax(100, 950 - Len(issues) * 200),
         issues |-> IssuesArray(issues)]

\* ---------------------------------------------------------- SupervisorAgent

RAG == "RAG_AGENT"
SQL == "SQL_AGENT"

getDelegationPlan(action) ==
    CASE action = <<"RAG_AGENT">> -> <<RAG>>
      [] action = <<"SQL_AGENT">> -> <<SQL>>
      [] action = <<"BOTH">> -> <<RAG, SQL>>
      [] OTHER -> <<RAG, SQL>>

\* A delegationPlan value: absent (or another falsy value), an array of
\* names, a string (items spells it), or a non-zero number.
PlanAbsent == [kind |-> "absent", items |-> <<>>]
PlanArray(items) == [kind |-> "array", items |-> items]
PlanString(items) == [kind |-> "string", items |-> items]
PlanNumber == [kind |-> "number", items |-> <<>>]

sqlKeywords ==
    {<<"sales">>, <<"revenue">>, <<"customer">>, <<"inventory">>, <<"metrics">>,
     <<"analytics">>}
ragKeywords ==
    {<<"policy">>, <<"recommendation">>, <<"how", " ", "to">>,
     <<"best", " ", "practice">>, <<"guide">>}

hasSqlKeywords(query) == \E k \in sqlKeywords : includes(lowerText(query), k)
hasRagKeywords(query) == \E k \in ragKeywords : includes(lowerText(query), k)

\* a classifier whose second test forgets the other keyword set
fallbackActionUnguarded(query) ==
    LET afterSql == IF hasSqlKeywords(query) /\ ~hasRagKeywords(query)
                    THEN "SQL_AGENT" ELSE "BOTH"
    IN  IF hasRagKeywords(query) THEN "RAG_AGENT" ELSE afterSql

fallbackAction(query) ==
    LET afterSql == IF hasSqlKeywords(query) /\ ~hasRagKeywords(query)
                    THEN "SQL_AGENT" ELSE "BOTH"
    IN  IF hasRagKeywords(query) /\ ~hasSqlKeywords(query) THEN "RAG_AGENT" ELSE afterSql

fallbackReAct(query) ==
    LET action == fallbackAction(query)
    IN  [thought |-> <<"Analyzing query type: ">>
                       \o (IF hasSqlKeywords(query)
                           THEN <<"contains data keywords">> ELSE <<>>)
                       \o <<" ">>
                       \o (IF hasRagKeywords(query)
                           THEN <<"contains knowledge keywords">> ELSE <<>>),
         action |-> <<"delegate to ", action>>,
         observation |-> <<action, " will provide the most relevant information">>,
         reflection |-> <<"I'll coordinate the response to give comprehensive insights">>,
         confidence |-> Some(750),
         delegationPlan |-> PlanArray(getDelegationPlan(<<action>>))]

\* ---------------------------------------------------------------- SQLAgent

IsHeader(t) == t \in {"ANALYSIS:", "INSIGHTS:", "RECOMMENDATIONS:"}

\* response.match(/SQL_QUERY:\s*([\s\S]*?)(?=\n(?:ANALYSIS|INSIGHTS|RECOMMENDATIONS)|$)/)
\* group 1, or None when there is no match
sqlMatch(response) ==
    LET n == Len(response)
        marks == {i \in 1..n : response[i] = "SQL_QUERY:"}
    IN  IF marks = {} THEN None
        ELSE LET i == SetMin(marks)
                 rest == {j \in (i + 1)..n : ~IsSpace(response[j])}
                 from == IF rest = {} THEN n + 1 ELSE SetMin(rest)
                 stops == {k \in from..(n - 1) :
                             response[k] = "\n" /\ IsHeader(response[k + 1])}
                 to == IF stops = {} THEN n ELSE SetMin(stops) - 1
             IN  Some(SubSeq(response, from, to))

\* s.replace(/~~~sql\s*\n?/gi, '')
RECURSIVE stripSqlFence(_)
stripSqlFence(s) ==
    IF s = <<>> THEN <<>>
    ELSE IF toUpperCase(Head(s)) = "~~~SQL" THEN stripSqlFence(trimStart(Tail(s)))
    ELSE <<Head(s)>> \o stripSqlFence(Tail(s))

\* s.replace(/~~~\s*$/g, '')
stripClosingFence(s) ==
    LET t == trimEnd(s)
    IN  IF t # <<>> /\ t[Len(t)] = "~~~" THEN SubSeq(t, 1, Len(t) - 1) ELSE s

\* s.replace(/\s+/g, ' ')
RECURSIVE collapseSpace(_)
collapseSpace(s) ==
    IF s = <<>> THEN <<>>
    ELSE IF IsSpace(Head(s)) THEN <<" ">> \o collapseSpace(trimStart(s))
    ELSE <<Head(s)>> \o collapseSpace(Tail(s))

\* s.replace(/;?\s*$/, '')
stripSemicolon(s) ==
    LET t == trimEnd(s)
    IN  IF t # <<>> /\ t[Len(t)] = ";" THEN SubSeq(t, 1, Len(t) - 1) ELSE t

\* lines 663-669, one replace after the other, each on the value the one
\* before it produced
cleanSqlQuery(s) ==
    The({stripSemicolon(d) : d \in
            {trim(c) : c \in
                {collapseSpace(b) : b \in
                    {stripClosingFence(a) : a \in {stripSqlFence(s)}}}}})

startsWithSelect(s) == s # <<>> /\ toUpperCase(s[1]) = "SELECT"

\* validation that keeps every statement, whatever its first word
validateAnyStatement(cleaned) == Some(cleaned)

\* the statement kept after validation: None is null, Some(<<>>) is ''
validateSqlQuery(cleaned) == IF startsWithSelect(cleaned) THEN Some(cleaned) ELSE None

\* lines 657-677: the match, its trim, and the clean-up and validation of
\* a statement that is not empty
extractSqlQuery(response) ==
    The({IF raw = None \/ raw = Some(<<>>) THEN raw
         ELSE The({validateSqlQuery(cleaned) : cleaned \in {cleanSqlQuery(raw[1])}}) :
            raw \in {IF m = None THEN None ELSE Some(trim(m[1])) :
                        m \in {sqlMatch(response)}}})

\* a JS truthiness test on the optional statement
hasSqlQuery(sqlQuery) == sqlQuery # None /\ sqlQuery # Some(<<>>)

\* a QueryResult: rows are the sets of their keys, schema the field names
\* (executionTime, which simulateQueryExecution draws at random, is left out:
\* it reaches no AgentMessage)
QueryResult(rows, schema, totalRows) ==
    [rows |-> rows, schema |-> schema, totalRows |-> totalRows]

Rows(n, keys) == [i \in 1..n |-> keys]

\* a generator whose customer rows carry a key its schema does not list
simulateQueryExecutionUnlisted(sqlQuery) ==
    IF ~hasSqlQuery(sqlQuery) THEN QueryResult(<<>>, <<>>, 0)
    ELSE LET lowerQuery == lowerText(sqlQuery[1])
             has(w) == includes(lowerQuery, <<w>>)
         IN  IF has("sales") /\ (has("total") \/ has("sum"))
             THEN QueryResult(
                    Rows(4, {"period", "total_sales", "growth_rate", "transactions"}),
                    <<"period", "total_sales", "growth_rate", "transactions">>, 4)
             ELSE IF has("customer")
             THEN QueryResult(
                    Rows(3, {"segment", "count", "avg_value", "retention_rate"}),
                    <<"segment", "count", "avg_value">>, 3)
             ELSE IF has("product") \/ has("inventory")
             THEN QueryResult(
                    Rows(4, {"category", "stock_level", "reorder_point",
                             "turnover_rate", "avg_price"}),
                    <<"category", "stock_level", "reorder_point", "turnover_rate",
                      "avg_price">>, 4)
             ELSE QueryResult(Rows(4, {"metric", "value", "change"}),
                              <<"metric", "value", "change">>, 4)

simulateQueryExecution(sqlQuery) ==
    IF ~hasSqlQuery(sqlQuery) THEN QueryResult(<<>>, <<>>, 0)
    ELSE LET lowerQuery == lowerText(sqlQuery[1])
             has(w) == includes(lowerQuery, <<w>>)
         IN  IF has("sales") /\ (has("total") \/ has("sum"))
             THEN QueryResult(
                    Rows(4, {"period", "total_sales", "growth_rate", "transactions"}),
                    <<"period", "total_sales", "growth_rate", "transactions">>, 4)
             ELSE IF has("customer")
             THEN QueryResult(
                    Rows(3, {"segment", "count", "avg_value", "retention_rate"}),
                    <<"segment", "count", "avg_value", "retention_rate">>, 3)
             ELSE IF has("product") \/ has("inventory")
             THEN QueryResult(
                    Rows(4, {"category", "stock_level", "reorder_point",
                             "turnover_rate", "avg_price"}),
                    <<"category", "stock_level", "reorder_point", "turnover_rate",
                      "avg_price">>, 4)
             ELSE QueryResult(Rows(4, {"metric", "value", "change"}),
                              <<"metric", "value", "change">>, 4)

\* --------------------------------------------------------- BigQueryService

\* cleanQuery.replace(/--.*$/gm, ''): a line comment runs to the end of its line
RECURSIVE stripLineComments(_)
stripLineComments(s) ==
    IF s = <<>> THEN <<>>
    ELSE IF Head(s) = "--"
         THEN LET ends == {k \in 1..Len(s) : s[k] = "\n"}
              IN  IF ends = {} THEN <<>>
                  ELSE stripLineComments(SubSeq(s, SetMin(ends), Len(s)))
    ELSE IF Head(s) = "\n" THEN <<"\n">> \o stripLineComments(Tail(s))
    ELSE <<Head(s)>> \o stripLineComments(Tail(s))

\* cleanQuery.replace(/\/\*[\s\S]*?\*\//g, '')
RECURSIVE stripBlockComments(_)
stripBlockComments(s) ==
    IF s = <<>> THEN <<>>
    ELSE IF Head(s) = "/*" /\ \E k \in 2..Len(s) : s[k] = "*/"
         THEN stripBlockComments(
                  SubSeq(s, SetMin({k \in 2..Len(s) : s[k] = "*/"}) + 1, Len(s)))
    ELSE <<Head(s)>> \o stripBlockComments(Tail(s))

\* cleanQuery.split(';')
RECURSIVE split(_)
split(s) ==
    LET marks == {k \in 1..Len(s) : s[k] = ";"}
    IN  IF marks = {} THEN <<s>>
        ELSE <<SubSeq(s, 1, SetMin(marks) - 1)>>
                 \o split(SubSeq(s, SetMin(marks) + 1, Len(s)))

\* .map(s => s.trim()).filter(s => s.length > 0)
statementsOf(s) ==
    SelectSeq([i \in 1..Len(split(s)) |-> trim(split(s)[i])], LAMBDA t : t # <<>>)

\* statements.find(s => s.toUpperCase().startsWith('SELECT')); None when
\* there is none
firstSelect(statements) ==
    LET found == {i \in 1..Len(statements) : startsWithSelect(statements[i])}
    IN  IF found = {} THEN None ELSE Some(statements[SetMin(found)])

dangerousWords == {"DROP", "DELETE", "TRUNCATE", "ALTER", "CREATE", "INSERT", "UPDATE"}

\* the three dangerousPatterns: a dangerous word followed by whitespace (the
\* second pattern, ;\s*DROP\s+, matches nothing the first does not), or a
\* name qualified by INFORMATION_SCHEMA.
matchesDangerousPattern(s) ==
    \/ \E i \in 1..(Len(s) - 1) :
          toUpperCase(s[i]) \in dangerousWords /\ IsSpace(s[i + 1])
    \/ \E i \in 1..Len(s) : toUpperCase(s[i]) \in {"INFORMATION_SCHEMA.TABLES"}

\* What sanitizeQuery does with a query: it returns the cleaned query or
\* throws
Sanitized(query) == [kind |-> "ok", query |-> query]
SanitizeThrows == [kind |-> "throw", query |-> <<>>]

sanitizeQuery(query) ==
    LET uncommented == stripBlockComments(stripLineComments(trim(query)))
        normalized == trim(collapseSpace(uncommented))
        selectStatement == firstSelect(statementsOf(normalized))
        cleanQuery ==
            IF (\E k \in 1..Len(normalized) : normalized[k] = ";")
               /\ selectStatement # None
            THEN selectStatement[1] ELSE normalized
    IN  IF matchesDangerousPattern(cleanQuery) THEN SanitizeThrows
        ELSE IF ~startsWithSelect(cleanQuery) THEN SanitizeThrows
        ELSE Sanitized(cleanQuery)

\* query.toUpperCase()
upperText(s) == [i \in 1..Len(s) |-> toUpperCase(s[i])]

largeTables == {"events", "order_items", "users"}

\* parseInt(num) of a token; NaN when the token holds no digits
parseInt(t) ==
    CASE t = "5" -> 5
      [] t = "10" -> 10
      [] t = "1000" -> 1000
      [] t = "5000" -> 5000
      [] OTHER -> NaN

\* the text that the replacement of line 163 puts behind a match
recencyFilter ==
    <<" ", "WHERE", " ", "created_at", " ", ">=", " ",
      "TIMESTAMP_SUB(CURRENT_TIMESTAMP(),", " ", "INTERVAL 7 DAY", ")">>

\* the lookahead (?=\s+(GROUP|ORDER|LIMIT|$)) behind position e: whitespace,
\* then one of the three keywords or the end of the text
followedByClause(s, e) ==
    \E j \in (e + 2)..(Len(s) + 1) :
        /\ \A k \in (e + 1)..(j - 1) : IsSpace(s[k])
        /\ \/ j = Len(s) + 1
           \/ toUpperCase(s[j]) \in {"GROUP", "ORDER", "LIMIT"}

\* the matches of /FROM\s+[^)]*events[^)]*(?=...)/i that begin at i: the
\* positions at which such a match can end
fromEventsEnds(s, i) ==
    {e \in (i + 2)..Len(s) :
        /\ toUpperCase(s[i]) = "FROM"
        /\ IsSpace(s[i + 1])
        /\ \E k \in (i + 2)..e : toUpperCase(s[k]) = "EVENTS"
        /\ \A k \in (i + 2)..e : s[k] # ")"
        /\ followedByClause(s, e)}

SetMax(S) == CHOOSE x \in S : \A y \in S : y <= x

\* optimizedQuery.replace(/FROM\s+[^)]*events[^)]*(?=...)/gi, match =>
\* match + ' WHERE created_at >= ...'): the leftmost match, as long as it can
\* be, then the matches behind it
RECURSIVE addRecencyFilter(_)
addRecencyFilter(s) ==
    LET starts == {i \in 1..Len(s) : fromEventsEnds(s, i) # {}}
    IN  IF starts = {} THEN s
        ELSE LET e == SetMax(fromEventsEnds(s, SetMin(starts)))
             IN  SubSeq(s, 1, e) \o recencyFilter
                     \o addRecencyFilter(SubSeq(s, e + 1, Len(s)))

\* optimizedQuery.replace(/INTERVAL 30 DAY/gi, 'INTERVAL 7 DAY')
shortenInterval(s) ==
    [i \in 1..Len(s) |-> IF toUpperCase(s[i]) = "INTERVAL 30 DAY"
                         THEN "INTERVAL 7 DAY" ELSE s[i]]

\* optimizedQuery.replace(/LIMIT\s+(\d+)/gi, ...): a limit above 1000
\* becomes LIMIT 1000, any other match stays as it is
RECURSIVE capLimits(_)
capLimits(s) ==
    IF s = <<>> THEN <<>>
    ELSE IF toUpperCase(Head(s)) = "LIMIT"
         THEN LET rest == trimStart(Tail(s))
              IN  IF /\ rest # <<>> /\ rest # Tail(s)
                     /\ parseInt(Head(rest)) # NaN
                     /\ parseInt(Head(rest)) > 1000
                  THEN <<"LIMIT", " ", "1000">> \o capLimits(Tail(rest))
                  ELSE <<Head(s)>> \o capLimits(Tail(s))
    ELSE <<Head(s)>> \o capLimits(Tail(s))

\* BigQueryService.optimizeQueryForLargeTables
optimizeQueryForLargeTables(query) ==
    LET queryUpper == upperText(query)
        has(w) == \E i \in 1..Len(queryUpper) : queryUpper[i] = w
        hasLargeTable == \E table \in largeTables : has(toUpperCase(table))
        filtered ==
            IF has("EVENTS") /\ ~has("WHERE") THEN addRecencyFilter(query)
            ELSE IF has("EVENTS") /\ has("INTERVAL 30 DAY")
            THEN shortenInterval(query)
            ELSE query
    IN  IF ~hasLargeTable THEN query
        ELSE IF ~has("LIMIT") THEN filtered \o <<" ", "LIMIT", " ", "1000">>
        ELSE capLimits(filtered)

\* line 47 of executeQuery: the query of the job that is created, None when
\* sanitizeQuery throws
submittedQuery(sqlQuery) ==
    LET clean == sanitizeQuery(sqlQuery)
    IN  IF clean.kind = "throw" THEN None
        ELSE Some(optimizeQueryForLargeTables(clean.query))

\* lines 58-73 of executeQuery: the QueryResult built from the rows of the
\* job and the fields of its metadata, which may be missing
executeQueryResult(rows, fields) ==
    QueryResult(rows, IF fields = None THEN <<>> ELSE fields[1], Len(rows))

\* ------------------------------------------------- messages and responses

\* AgentMessage.metadata; every field optional
Metadata(agentType, toolUsed, reasoning, sources, sqlQuery, confidence, reactStep, safetyScore, delegationPlan) ==
    [agentType |-> agentType, toolUsed |-> toolUsed, reasoning |-> reasoning,
     sources |-> sources, sqlQuery |-> sqlQuery, confidence |-> confidence,
     reactStep |-> reactStep, safetyScore |-> safetyScore,
     delegationPlan |-> delegationPlan]

\* an id is Date.now() plus an offset, written in decimal, and a suffix
Id(t, suffix) == [t |-> t, suffix |-> suffix]

AgentMessage(id, role, content, timestamp, metadata) ==
    [id |-> id, role |-> role, content |-> content, timestamp |-> timestamp,
     metadata |-> metadata]

\* the step of a rejected query (processQuery, the !safetyCheck.safe branch)
safetyMessage(safetyCheck, now) ==
    AgentMessage(Id(now, ""), "safety",
        <<"I cannot process this query due to safety concerns: ">>
            \o (IF safetyCheck.issues.kind = "array"
                THEN join(safetyCheck.issues.items, <<", ">>) ELSE <<"undefined">>),
        now,
        Some(Metadata(None, None, None, None, None, Some(900), None,
                      Some(safetyCheck.score), None)))

userMessage(userQuery, now) == AgentMessage(Id(now, ""), "user", userQuery, now, None)

\* A reply of the supervisor model to performReAct: it raises, returns text
\* without a {...} span, text whose {...} span JSON.parse rejects, or a JSON
\* object.
ReactRaise == [kind |-> "raise"]
ReactNoJson == [kind |-> "nojson"]
ReactBadJson == [kind |-> "badjson"]
ReactJson(action, confidence, delegationPlan) ==
    [kind |-> "json", thought |-> <<"the user asks for figures">>, action |-> action,
     observation |-> <<"each agent brings a part">>,
     reflection |-> <<"merge the parts">>, confidence |-> confidence,
     delegationPlan |-> delegationPlan]

\* x || y on an optional number: undefined and 0 are falsy
orNumber(x, y) == IF x = None \/ x = Some(0) THEN y ELSE x[1]

\* performReAct, lines 227-257: the message built from parsedResponse
reactMessage(parsedResponse, now) ==
    AgentMessage(Id(now + 1, ""), "supervisor",
        <<"THOUGHT: ">> \o parsedResponse.thought
            \o <<"\n\nACTION: I will ">> \o parsedResponse.action
            \o <<"\n\nOBSERVATION: ">> \o parsedResponse.observation
            \o <<"\n\nREFLECTION: ">> \o parsedResponse.reflection,
        now,
        Some(Metadata(Some("SUPERVISOR_REACT"), None, Some(parsedResponse.reflection),
                      None, None, Some(orNumber(parsedResponse.confidence, 800)),
                      Some("reflection"), None,
                      Some(IF parsedResponse.delegationPlan.kind = "absent"
                           THEN PlanArray(getDelegationPlan(parsedResponse.action))
                           ELSE parsedResponse.delegationPlan))))

fallbackReActMessage(query, now) ==
    LET fallback == fallbackReAct(query)
    IN  AgentMessage(Id(now + 1, ""), "supervisor",
            <<"THOUGHT: ">> \o fallback.thought
                \o <<"\n\nACTION: ">> \o fallback.action
                \o <<"\n\nOBSERVATION: ">> \o fallback.observation
                \o <<"\n\nREFLECTION: ">> \o fallback.reflection,
            now,
            Some(Metadata(Some("SUPERVISOR_REACT"), None, Some(fallback.reflection),
                          None, None, fallback.confidence, Some("reflection"), None,
                          Some(fallback.delegationPlan))))

performReAct(query, reply, now) ==
    CASE reply.kind = "raise" -> fallbackReActMessage(query, now)
      [] reply.kind \in {"nojson", "badjson"} -> reactMessage(fallbackReAct(query), now)
      [] OTHER -> reactMessage(reply, now)

\* delegationPlan.includes(name); a number has no includes method
canInclude(plan) == plan.kind \in {"array", "string"}

\* a test that finds every capability in every plan
planIncludesAny(plan, name) == TRUE

planIncludes(plan, name) == \E i \in 1..Len(plan.items) : plan.items[i] = name

\* AgentResponse; toolCalls holds at most one ToolCall
ToolCall(toolName, status, result, resultCount) ==
    [toolName |-> toolName, status |-> status, result |-> result,
     resultCount |-> resultCount]

AgentResponse(agent, message, reasoning, toolCalls, confidence, sources, sqlQuery, safetyScore, metadata) ==
    [agent |-> agent, message |-> message, reasoning |-> reasoning,
     toolCalls |-> toolCalls, confidence |-> confidence, sources |-> sources,
     sqlQuery |-> sqlQuery, safetyScore |-> safetyScore, metadata |-> metadata]

\* --------------------------------------------------------------- RAGAgent

\* A reply of a model asked for text: it raises, or answers with a text.
ModelRaise == [kind |-> "raise", text |-> <<>>]
ModelText(text) == [kind |-> "text", text |-> text]

ragSources ==
    <<"Retail Best Practices Database", "Industry Guidelines",
      "Product Documentation", "Market Analysis Reports">>

ragFallback ==
    AgentResponse("RAG_AGENT",
        <<"I'm currently experiencing technical difficulties accessing the knowledge base, but I can provide general retail guidance based on industry standards.">>,
        <<"Fallback response due to retrieval system unavailability">>,
        <<ToolCall("VectorDB_Retrieval", "error", <<>>, 0)>>,
        600, None, None, 800, None)

\* a retrieval capability that passes the text of the model on as it is
ragProcessQueryUnscreened(reply) ==
    IF reply.kind = "raise" THEN ragFallback
    ELSE LET safetyCheck == checkResponse(reply.text)
         IN  AgentResponse("RAG_AGENT", reply.text,
                <<"Retrieved information from retail knowledge base and applied industry best practices">>,
                <<ToolCall("VectorDB_Retrieval", "success", <<>>, 0)>>,
                MathMin(850, safetyCheck.score), Some(ragSources), None,
                safetyCheck.score, None)

ragProcessQuery(reply) ==
    IF reply.kind = "raise" THEN ragFallback
    ELSE LET safetyCheck == checkResponse(reply.text)
         IN  AgentResponse("RAG_AGENT",
                IF safetyCheck.safe THEN reply.text
                ELSE <<"I found relevant information but need to review it for compliance.">>,
                <<"Retrieved information from retail knowledge base and applied industry best practices">>,
                <<ToolCall("VectorDB_Retrieval", "success", <<>>, 0)>>,
                MathMin(850, safetyCheck.score), Some(ragSources), None,
                safetyCheck.score, None)

\* response.toolCalls?.[0]?.toolName
firstToolName(response) ==
    IF response.toolCalls = <<>> THEN None ELSE Some(response.toolCalls[1].toolName)

executeRAGAgent(response, now) ==
    AgentMessage(Id(now, "_rag"), "rag_agent", response.message, now,
        Some(Metadata(Some("RAG_AGENT"), firstToolName(response),
                      Some(response.reasoning), response.sources, None,
                      Some(response.confidence), Some("action"), None, None)))

\* ------------------------------------------------- SQLAgent.processQuery

\* A reply of /api/bigquery/schema: the fetch (or response.json()) raises,
\* or data arrives with a schema text or without one.
SchemaRaise == [kind |-> "raise", schema |-> None]
SchemaData(schema) == [kind |-> "data", schema |-> schema]

getFallbackSchema == <<"RETAIL DATABASE SCHEMA (Mock Data)">>

\* the value loadSchema assigns to schemaCache (lines 540-547)
fetchedSchema(reply) ==
    IF reply.kind = "raise" \/ reply.schema = None \/ reply.schema = Some(<<>>)
    THEN getFallbackSchema ELSE reply.schema[1]

\* if (this.schemaCache)
cacheHit(cache) == cache # None /\ cache # Some(<<>>)

\* A reply of /api/bigquery/execute: the fetch (or response.json()) raises
\* with a message (None: the thrown value is no Error), or data arrives with
\* success, result and error.
ExecRaise(error) == [kind |-> "raise", success |-> FALSE, result |-> None, error |-> error]
ExecData(success, result, error) ==
    [kind |-> "data", success |-> success, result |-> result, error |-> error]

\* x || undefined on an optional text
orUndefined(x) == IF x = Some(<<>>) THEN None ELSE x

\* lines 719-753: the response once queryResults, executionError and
\* usingRealData are settled; queryResults is optional
sqlResponse(response, sqlQuery, safetyCheck, queryResults, executionError, usingRealData) ==
    AgentResponse("SQL_AGENT",
        IF safetyCheck.safe THEN response
        ELSE <<"I generated a data analysis but need to review it for security compliance.">>,
        IF usingRealData
        THEN <<"Generated optimized BigQuery SQL and executed against real retail database">>
        ELSE <<"Generated SQL query and simulated results based on retail database schema">>,
        <<ToolCall(IF usingRealData THEN "BigQuery_Database" ELSE "SQL_Database_Simulator",
                   IF orUndefined(executionError) # None THEN "error" ELSE "success",
                   IF queryResults = None THEN <<>> ELSE queryResults[1].rows,
                   IF queryResults = None THEN 0 ELSE queryResults[1].totalRows)>>,
        MathMin(950, safetyCheck.score), None,
        IF hasSqlQuery(sqlQuery) THEN sqlQuery ELSE None,
        safetyCheck.score,
        Some([usingRealData |-> usingRealData,
              dataSource |-> IF usingRealData THEN "BigQuery" ELSE "Simulated",
              executionError |-> orUndefined(executionError),
              schema |-> IF queryResults = None
                         THEN None ELSE Some(queryResults[1].schema)]))

sqlFallback ==
    AgentResponse("SQL_AGENT",
        <<"I'm currently unable to access the database, but I can provide general guidance on retail data analysis and KPI tracking.">>,
        <<"Fallback response due to SQL generation system unavailability">>,
        <<ToolCall("SQL_Database", "error", <<>>, 0)>>,
        600, None, None, 800, None)

\* every answer of the backend taken for a successful execution
sqlAfterExecuteAlwaysLive(response, sqlQuery, reply) ==
    LET safetyCheck == checkResponse(response)
    IN  IF reply.kind = "data"
        THEN sqlResponse(response, sqlQuery, safetyCheck, reply.result, None, TRUE)
        ELSE sqlResponse(response, sqlQuery, safetyCheck,
                         Some(simulateQueryExecution(sqlQuery)),
                         IF reply.error = None
                         THEN Some(<<"Query execution failed">>) ELSE reply.error,
                         FALSE)

\* a failed execution reported without a simulated result
sqlAfterExecuteUnsimulated(response, sqlQuery, reply) ==
    LET safetyCheck == checkResponse(response)
    IN  IF reply.kind = "data" /\ reply.success
        THEN sqlResponse(response, sqlQuery, safetyCheck, reply.result, None, TRUE)
        ELSE sqlResponse(response, sqlQuery, safetyCheck, None, reply.error, FALSE)

\* lines 685-717 after the execute call has answered
sqlAfterExecute(response, sqlQuery, reply) ==
    LET safetyCheck == checkResponse(response)
    IN  IF reply.kind = "data" /\ reply.success
        THEN sqlResponse(response, sqlQuery, safetyCheck, reply.result, None, TRUE)
        ELSE sqlResponse(response, sqlQuery, safetyCheck,
                         Some(simulateQueryExecution(sqlQuery)),
                         IF reply.kind = "data" THEN reply.error
                         ELSE IF reply.error = None
                              THEN Some(<<"Query execution failed">>) ELSE reply.error,
                         FALSE)

\* lines 714-717: no statement to execute
sqlWithoutExecute(response, sqlQuery) ==
    sqlResponse(response, sqlQuery, checkResponse(response),
                Some(simulateQueryExecution(sqlQuery)), None, FALSE)

executeSQLAgent(response, now) ==
    AgentMessage(Id(now, "_sql"), "sql_agent", response.message, now,
        Some(Metadata(Some("SQL_AGENT"), firstToolName(response),
                      Some(response.reasoning), None, response.sqlQuery,
                      Some(response.confidence), Some("action"), None, None)))

\* ------------------------------------------ SupervisorAgent.synthesizeResponses

\* msg.metadata?.confidence, undefined when either is
confidenceOf(msg) == IF msg.metadata = None THEN None ELSE msg.metadata[1].confidence

\* a single-capability synthesis that repeats the content without the prefix
synthesizeSingleBare(agentResponse, now) ==
    LET safetyCheck == checkResponse(agentResponse.content)
    IN  AgentMessage(Id(now + 10, ""), "supervisor",
            IF safetyCheck.safe THEN agentResponse.content
            ELSE <<"I've generated a response but it needs review for safety compliance.">>,
            now,
            Some(Metadata(Some("SUPERVISOR_SYNTHESIS"), None,
                          Some(<<"Single agent response synthesis">>), None, None,
                          Some(MathMin(orNumber(confidenceOf(agentResponse), 800),
                                       safetyCheck.score)),
                          Some("observation"), Some(safetyCheck.score), None)))

\* a single-capability synthesis that takes 0.8 for the confidence of the
\* capability
synthesizeSingleDefaulted(agentResponse, now) ==
    LET safetyCheck == checkResponse(agentResponse.content)
    IN  AgentMessage(Id(now + 10, ""), "supervisor",
            IF safetyCheck.safe
            THEN <<"Based on the analysis, here's what I found:\n\n">>
                     \o agentResponse.content
            ELSE <<"I've generated a response but it needs review for safety compliance.">>,
            now,
            Some(Metadata(Some("SUPERVISOR_SYNTHESIS"), None,
                          Some(<<"Single agent response synthesis">>), None, None,
                          Some(MathMin(800, safetyCheck.score)),
                          Some("observation"), Some(safetyCheck.score), None)))

\* lines 375-393: exactly one agent response
synthesizeSingle(agentResponse, now) ==
    LET safetyCheck == checkResponse(agentResponse.content)
    IN  AgentMessage(Id(now + 10, ""), "supervisor",
            IF safetyCheck.safe
            THEN <<"Based on the analysis, here's what I found:\n\n">>
                     \o agentResponse.content
            ELSE <<"I've generated a response but it needs review for safety compliance.">>,
            now,
            Some(Metadata(Some("SUPERVISOR_SYNTHESIS"), None,
                          Some(<<"Single agent response synthesis">>), None, None,
                          Some(MathMin(orNumber(confidenceOf(agentResponse), 800),
                                       safetyCheck.score)),
                          Some("observation"), Some(safetyCheck.score), None)))

RECURSIVE sumConfidence(_)
sumConfidence(msgs) ==
    IF msgs = <<>> THEN 0
    ELSE orNumber(confidenceOf(Head(msgs)), 0) + sumConfidence(Tail(msgs))

\* a sum taken for the average
avgConfidenceUndivided(msgs) == IF msgs = <<>> THEN NaN ELSE sumConfidence(msgs)

avgConfidence(msgs) == IF msgs = <<>> THEN NaN ELSE sumConfidence(msgs) \div Len(msgs)

contentsOf(msgs) == [i \in 1..Len(msgs) |-> msgs[i].content]

\* a synthesis whose fallback repeats the first capability's content only
synthesizeMultiFirstOnly(agentResponses, reply, executionTime, now) ==
    IF reply.kind = "raise"
    THEN AgentMessage(Id(now + 10, ""), "supervisor",
            <<"Based on analysis from our specialized agents:\n\n">>
                \o (IF agentResponses = <<>> THEN <<>> ELSE agentResponses[1].content),
            now,
            Some(Metadata(Some("SUPERVISOR_SYNTHESIS"), None,
                          Some(<<"Fallback synthesis due to processing error">>),
                          None, None, Some(700), Some("observation"), Some(800), None)))
    ELSE LET safetyCheck == checkResponse(reply.text)
         IN  AgentMessage(Id(now + 10, ""), "supervisor",
                IF safetyCheck.safe THEN reply.text
                ELSE <<"I've analyzed multiple data sources but need to review the response for compliance.">>,
                now,
                Some(Metadata(Some("SUPERVISOR_SYNTHESIS"), None,
                              Some(<<"Multi-agent synthesis completed in ",
                                     ToString(executionTime), "ms">>),
                              None, None,
                              Some(MathMin(avgConfidence(agentResponses),
                                           safetyCheck.score)),
                              Some("reflection"), Some(safetyCheck.score), None)))

\* a synthesis that scores the model's text but returns it unreplaced
synthesizeMultiUnreplaced(agentResponses, reply, executionTime, now) ==
    IF reply.kind = "raise"
    THEN AgentMessage(Id(now + 10, ""), "supervisor",
            <<"Based on analysis from our specialized agents:\n\n">>
                \o join(contentsOf(agentResponses), <<"\n\nAdditionally:\n">>),
            now,
            Some(Metadata(Some("SUPERVISOR_SYNTHESIS"), None,
                          Some(<<"Fallback synthesis due to processing error">>),
                          None, None, Some(700), Some("observation"), Some(800), None)))
    ELSE LET safetyCheck == checkResponse(reply.text)
         IN  AgentMessage(Id(now + 10, ""), "supervisor", reply.text, now,
                Some(Metadata(Some("SUPERVISOR_SYNTHESIS"), None,
                              Some(<<"Multi-agent synthesis completed in ",
                                     ToString(executionTime), "ms">>),
                              None, None,
                              Some(MathMin(avgConfidence(agentResponses),
                                           safetyCheck.score)),
                              Some("reflection"), Some(safetyCheck.score), None)))

\* lines 411-446: the synthesis model has answered
synthesizeMulti(agentResponses, reply, executionTime, now) ==
    IF reply.kind = "raise"
    THEN AgentMessage(Id(now + 10, ""), "supervisor",
            <<"Based on analysis from our specialized agents:\n\n">>
                \o join(contentsOf(agentResponses), <<"\n\nAdditionally:\n">>),
            now,
            Some(Metadata(Some("SUPERVISOR_SYNTHESIS"), None,
                          Some(<<"Fallback synthesis due to processing error">>),
                          None, None, Some(700), Some("observation"), Some(800), None)))
    ELSE LET safetyCheck == checkResponse(reply.text)
         IN  AgentMessage(Id(now + 10, ""), "supervisor",
                IF safetyCheck.safe THEN reply.text
                ELSE <<"I've analyzed multiple data sources but need to review the response for compliance.">>,
                now,
                Some(Metadata(Some("SUPERVISOR_SYNTHESIS"), None,
                              Some(<<"Multi-agent synthesis completed in ",
                                     ToString(executionTime), "ms">>),
                              None, None,
                              Some(MathMin(avgConfidence(agentResponses),
                                           safetyCheck.score)),
                              Some("reflection"), Some(safetyCheck.score), None)))

\* ------------------------------------------------------------------ state

VARIABLES
    clock,                \* Date.now()
    schemaCache,          \* SQLAgent.schemaCache
    schemaWrites,         \* how many times schemaCache has been assigned
    conversationHistory,  \* SupervisorAgent.conversationHistory
    started,              \* how many processQuery invocations have begun
    pc,                   \* where each invocation stands
    userQuery,            \* its argument
    conversation,         \* its local conversation
    startTime,            \* executeAgentPlan's startTime
    executionTime,        \* executeAgentPlan's executionTime
    rag,                  \* its executeRAGAgent promise
    sql,                  \* its executeSQLAgent promise
    called,               \* the ports it has called, and "checkResponse" once
                          \* synthesizeResponses has called the output filter
    order,                \* its capabilities, in the order they completed
    last,                 \* the reply the supervisor's latest step consumed
    memo,                 \* what a deterministic environment has answered so far
    langChain             \* the run of the LangChain BigQuery agent

vars ==
    <<clock, schemaCache, schemaWrites, conversationHistory, started, pc, userQuery,
      conversation, startTime, executionTime, rag, sql, called, order, last, memo,
      langChain>>

shared == <<schemaCache, schemaWrites, conversationHistory>>

NoReply == [site |-> "none", reply |-> [kind |-> "none"]]
Reply(site, reply) == [site |-> site, reply |-> reply]

\* a promise: where its capability stands, the reply its latest step
\* consumed, and what it has computed
RagOff == [pc |-> "off", last |-> NoReply, response |-> None, msg |-> None]
SqlOff ==
    [pc |-> "off", last |-> NoReply, schema |-> None, text |-> <<>>, sqlQuery |-> None,
     sent |-> None, response |-> None, msg |-> None]

EmptyMemo ==
    [checkQuery |-> {}, performReAct |-> {}, rag |-> {}, schema |-> {}, sql |-> {},
     execute |-> {}, synthesis |-> {}]

\* the LangChain agent before processQuery is called on it: where its run
\* stands, when it began, the nodes of the graph it has run, the tool call the model asked
\* for, the statements the checker accepted, the statements handed to
\* BigQuery, the output of the latest tool, the contents of the last AI
\* messages, and what processQuery returned
LangChainOff ==
    [pc |-> "idle", startTime |-> 0, steps |-> 0, pending |-> None, accepted |-> {}, submitted |-> {},
     observation |-> None, ai |-> <<>>, returned |-> None]

Init ==
    /\ clock = 0
    /\ schemaCache = None
    /\ schemaWrites = 0
    /\ conversationHistory = <<>>
    /\ started = 0
    /\ pc = [c \in Calls |-> "idle"]
    /\ userQuery = [c \in Calls |-> <<>>]
    /\ conversation = [c \in Calls |-> <<>>]
    /\ startTime = [c \in Calls |-> 0]
    /\ executionTime = [c \in Calls |-> 0]
    /\ rag = [c \in Calls |-> RagOff]
    /\ sql = [c \in Calls |-> SqlOff]
    /\ called = [c \in Calls |-> {}]
    /\ order = [c \in Calls |-> <<>>]
    /\ last = [c \in Calls |-> NoReply]
    /\ memo = EmptyMemo
    /\ langChain = LangChainOff

\* ------------------------------------------------------------ environment

\* An environment E names the arguments callers pass (queries), the replies
\* each port may give, the ports that may stay silent for ever, whether
\* equal requests get equal replies (deterministic), whether invocations
\* may overlap, whether the caller drops a returned conversation before the
\* next invocation (reuse), and the slots invocations take.

\* the reply is one the environment may give to this request
Answers(E, site, request, reply) ==
    /\ reply \in E[site]
    /\ E.deterministic => \A e \in memo[site] : e[1] = request => e[2] = reply

Remember(E, site, request, reply) ==
    IF E.deterministic THEN [memo EXCEPT ![site] = @ \cup {<<request, reply>>}] ELSE memo

Finished(c) == pc[c] \in {"returned", "raised"}

\* ---------------------------------------------------------------- actions

\* processQuery is called: lines 146-150, up to the classifier call of checkQuery
processQuery(c, E) ==
    /\ started < MaxStarts
    /\ c \in E.slots
    /\ pc[c] = "idle" \/ (E.reuse /\ Finished(c))
    /\ \A d \in Calls : d < c => pc[d] # "idle"
    /\ E.overlap \/ \A d \in Calls \ {c} : pc[d] = "idle" \/ Finished(d)
    /\ \E query \in E.queries : userQuery' = [userQuery EXCEPT ![c] = query]
    /\ called' = [called EXCEPT ![c] = {"checkQuery"}]
    /\ order' = [order EXCEPT ![c] = <<>>]
    /\ started' = started + 1
    /\ pc' = [pc EXCEPT ![c] = "checkQuery"]
    /\ conversation' = [conversation EXCEPT ![c] = <<>>]
    /\ startTime' = [startTime EXCEPT ![c] = 0]
    /\ executionTime' = [executionTime EXCEPT ![c] = 0]
    /\ rag' = [rag EXCEPT ![c] = RagOff]
    /\ sql' = [sql EXCEPT ![c] = SqlOff]
    /\ last' = [last EXCEPT ![c] = NoReply]
    /\ UNCHANGED <<clock, shared, memo>>
    /\ UNCHANGED langChain

\* a processQuery that builds its trace on the supervisor's shared history
checkQueryReturnsShared(c, E) ==
    /\ pc[c] = "checkQuery"
    /\ \E reply \in E.checkQuery :
        /\ Answers(E, "checkQuery", userQuery[c], reply)
        /\ memo' = Remember(E, "checkQuery", userQuery[c], reply)
        /\ last' = [last EXCEPT ![c] = Reply("checkQuery", reply)]
        /\ LET safetyCheck == checkQuery(reply)
           IN  IF ~safetyCheck.safe
               THEN /\ pc' = [pc EXCEPT ![c] =
                                IF safetyCheck.issues.kind = "other"
                                THEN "raised" ELSE "returned"]
                    /\ conversation' = [conversation EXCEPT ![c] =
                                IF safetyCheck.issues.kind = "other" THEN <<>>
                                ELSE <<safetyMessage(safetyCheck, clock)>>]
                    /\ UNCHANGED <<conversationHistory, called>>
               ELSE /\ pc' = [pc EXCEPT ![c] = "performReAct"]
                    /\ conversation' = [conversation EXCEPT ![c] =
                                Append(conversationHistory,
                                       userMessage(userQuery[c], clock))]
                    /\ conversationHistory' =
                            Append(conversationHistory, userMessage(userQuery[c], clock))
                    /\ called' = [called EXCEPT ![c] = @ \cup {"performReAct"}]
    /\ UNCHANGED <<clock, schemaCache, schemaWrites, started, userQuery, startTime,
                   executionTime, rag, sql, order>>
    /\ UNCHANGED langChain

\* checkQuery's classifier call answers: lines 97-113, then lines 151-177 up
\* to the model call of performReAct
checkQueryReturns(c, E) ==
    /\ pc[c] = "checkQuery"
    /\ \E reply \in E.checkQuery :
        /\ Answers(E, "checkQuery", userQuery[c], reply)
        /\ memo' = Remember(E, "checkQuery", userQuery[c], reply)
        /\ last' = [last EXCEPT ![c] = Reply("checkQuery", reply)]
        /\ LET safetyCheck == checkQuery(reply)
           IN  IF ~safetyCheck.safe
               THEN /\ pc' = [pc EXCEPT ![c] =
                                IF safetyCheck.issues.kind = "other"
                                THEN "raised" ELSE "returned"]
                    /\ conversation' = [conversation EXCEPT ![c] =
                                IF safetyCheck.issues.kind = "other" THEN <<>>
                                ELSE <<safetyMessage(safetyCheck, clock)>>]
                    /\ UNCHANGED <<conversationHistory, called>>
               ELSE /\ pc' = [pc EXCEPT ![c] = "performReAct"]
                    /\ conversation' = [conversation EXCEPT ![c] =
                                <<userMessage(userQuery[c], clock)>>]
                    /\ conversationHistory' =
                            Append(conversationHistory, userMessage(userQuery[c], clock))
                    /\ called' = [called EXCEPT ![c] = @ \cup {"performReAct"}]
    /\ UNCHANGED <<clock, schemaCache, schemaWrites, started, userQuery, startTime,
                   executionTime, rag, sql, order>>
    /\ UNCHANGED langChain

\* the plan of the supervisor step
planOf(msg) == msg.metadata[1].delegationPlan[1]

\* performReAct's model call answers: lines 229-261, then lines 178-186 and
\* executeAgentPlan down to its await (lines 310-325), which starts
\* executeRAGAgent up to the model call of RAGAgent.processQuery and
\* executeSQLAgent up to the fetch of loadSchema or, when the schema is
\* cached, up to the model call of SQLAgent.processQuery
performReActReturns(c, E) ==
    /\ pc[c] = "performReAct"
    /\ \E reply \in E.performReAct :
        /\ Answers(E, "performReAct", userQuery[c], reply)
        /\ memo' = Remember(E, "performReAct", userQuery[c], reply)
        /\ last' = [last EXCEPT ![c] = Reply("performReAct", reply)]
        /\ LET reactResponse == performReAct(userQuery[c], reply, clock)
               delegationPlan == planOf(reactResponse)
               startRag == planIncludes(delegationPlan, RAG)
               startSql == planIncludes(delegationPlan, SQL)
           IN  /\ conversation' = [conversation EXCEPT ![c] = Append(@, reactResponse)]
               /\ IF ~canInclude(delegationPlan)
                  THEN /\ pc' = [pc EXCEPT ![c] = "raised"]
                       /\ UNCHANGED <<rag, sql, called>>
                  ELSE /\ pc' = [pc EXCEPT ![c] = "executeAgentPlan"]
                       /\ rag' = [rag EXCEPT ![c].pc = IF startRag THEN "model" ELSE "off"]
                       /\ sql' = [sql EXCEPT
                                    ![c].pc = IF ~startSql THEN "off"
                                              ELSE IF cacheHit(schemaCache) THEN "model"
                                              ELSE "schema",
                                    ![c].schema = IF startSql /\ cacheHit(schemaCache)
                                                  THEN schemaCache ELSE None]
                       /\ called' = [called EXCEPT ![c] =
                                    @ \cup (IF startRag THEN {"rag"} ELSE {})
                                      \cup (IF ~startSql THEN {}
                                            ELSE IF cacheHit(schemaCache) THEN {"sql"}
                                            ELSE {"schema"})]
    /\ startTime' = [startTime EXCEPT ![c] = clock]
    /\ UNCHANGED <<clock, shared, started, userQuery, executionTime, order>>
    /\ UNCHANGED langChain


\* the model call of RAGAgent.processQuery answers: lines 481-523, then
\* executeRAGAgent builds its message (lines 339-352)
ragModelReturns(c, E) ==
    /\ rag[c].pc = "model"
    /\ \E reply \in E.rag :
        /\ Answers(E, "rag", userQuery[c], reply)
        /\ memo' = Remember(E, "rag", userQuery[c], reply)
        /\ \E response \in {ragProcessQuery(reply)} :
               rag' = [rag EXCEPT ![c] =
                        [pc |-> "done", last |-> Reply("rag", reply),
                         response |-> Some(response),
                         msg |-> Some(executeRAGAgent(response, clock))]]
    /\ order' = [order EXCEPT ![c] = Append(@, RAG)]
    /\ UNCHANGED <<clock, shared, started, pc, userQuery, conversation, startTime,
                   executionTime, sql, called, last>>
    /\ UNCHANGED langChain

\* the fetch of loadSchema answers: lines 542-549, then SQLAgent.processQuery
\* up to its model call (lines 613-652)
schemaReturns(c, E) ==
    /\ sql[c].pc = "schema"
    /\ \E reply \in E.schema :
        /\ Answers(E, "schema", <<>>, reply)
        /\ memo' = Remember(E, "schema", <<>>, reply)
        /\ schemaCache' = Some(fetchedSchema(reply))
        /\ sql' = [sql EXCEPT ![c].pc = "model",
                              ![c].last = Reply("schema", reply),
                              ![c].schema = IF cacheHit(Some(fetchedSchema(reply)))
                                            THEN Some(fetchedSchema(reply))
                                            ELSE Some(getFallbackSchema)]
    /\ schemaWrites' = schemaWrites + 1
    /\ called' = [called EXCEPT ![c] = @ \cup {"sql"}]
    /\ UNCHANGED <<clock, conversationHistory, started, pc, userQuery, conversation,
                   startTime, executionTime, rag, order, last>>
    /\ UNCHANGED langChain

\* the model call of SQLAgent.processQuery answers: lines 653-685 and, with
\* no statement to execute, lines 714-753; a raise ends in lines 754-769;
\* either way executeSQLAgent then builds its message (lines 358-371)
sqlModelReturns(c, E) ==
    /\ sql[c].pc = "model"
    /\ \E reply \in E.sql :
        /\ Answers(E, "sql", <<sql[c].schema[1], userQuery[c]>>, reply)
        /\ memo' = Remember(E, "sql", <<sql[c].schema[1], userQuery[c]>>, reply)
        /\ \E sqlQuery \in {extractSqlQuery(reply.text)} :
           \E response \in {IF reply.kind = "raise" THEN sqlFallback
                             ELSE sqlWithoutExecute(reply.text, sqlQuery)} :
               IF reply.kind # "raise" /\ hasSqlQuery(sqlQuery)
               THEN /\ sql' = [sql EXCEPT ![c].pc = "execute",
                                          ![c].last = Reply("sql", reply),
                                          ![c].text = reply.text,
                                          ![c].sqlQuery = sqlQuery, ![c].sent = sqlQuery]
                    /\ called' = [called EXCEPT ![c] = @ \cup {"execute"}]
                    /\ UNCHANGED order
               ELSE /\ sql' = [sql EXCEPT ![c].pc = "done",
                                          ![c].last = Reply("sql", reply),
                                          ![c].text = reply.text,
                                          ![c].sqlQuery = IF reply.kind = "raise"
                                                          THEN None ELSE sqlQuery,
                                          ![c].response = Some(response),
                                          ![c].msg = Some(executeSQLAgent(response, clock))]
                    /\ order' = [order EXCEPT ![c] = Append(@, SQL)]
                    /\ UNCHANGED called
    /\ UNCHANGED <<clock, shared, started, pc, userQuery, conversation, startTime,
                   executionTime, rag, last>>
    /\ UNCHANGED langChain

\* the fetch of /api/bigquery/execute answers: lines 696-753, then
\* executeSQLAgent builds its message
executeReturns(c, E) ==
    /\ sql[c].pc = "execute"
    /\ \E reply \in E.execute :
        /\ Answers(E, "execute", sql[c].sent[1], reply)
        /\ memo' = Remember(E, "execute", sql[c].sent[1], reply)
        /\ \E response \in {sqlAfterExecute(sql[c].text, sql[c].sqlQuery, reply)} :
               sql' = [sql EXCEPT ![c].pc = "done",
                                  ![c].last = Reply("execute", reply),
                                  ![c].response = Some(response),
                                  ![c].msg = Some(executeSQLAgent(response, clock))]
    /\ order' = [order EXCEPT ![c] = Append(@, SQL)]
    /\ UNCHANGED <<clock, shared, started, pc, userQuery, conversation, startTime,
                   executionTime, rag, called, last>>
    /\ UNCHANGED langChain

\* a port that a capability waits for never answers; no line of the source
\* bounds the wait
neverResponds(c, E) ==
    /\ \E site \in E.silent :
        IF site = "rag"
        THEN /\ rag[c].pc = "model"
             /\ rag' = [rag EXCEPT ![c].pc = "hung"]
             /\ sql' = sql
        ELSE /\ sql[c].pc = (IF site = "sql" THEN "model" ELSE site)
             /\ sql' = [sql EXCEPT ![c].pc = "hung"]
             /\ rag' = rag
    /\ UNCHANGED <<clock, shared, started, pc, userQuery, conversation, startTime,
                   executionTime, called, order, last, memo>>
    /\ UNCHANGED langChain

\* an executeAgentPlan that awaits the first promise it started only
firstPromiseOnly(c) ==
    IF rag[c].pc # "off" THEN <<rag[c]>>
    ELSE IF sql[c].pc # "off" THEN <<sql[c]>> ELSE <<>>

\* the promises executeAgentPlan collected, in the order it pushed them
agentPromises(c) ==
    (IF rag[c].pc = "off" THEN <<>> ELSE <<rag[c]>>)
        \o (IF sql[c].pc = "off" THEN <<>> ELSE <<sql[c]>>)

agentResponsesOf(c) == [i \in 1..Len(agentPromises(c)) |-> agentPromises(c)[i].msg[1]]

\* the request the synthesis model receives: the query and each agent's
\* agentType and content
synthesisPrompt(c) ==
    <<userQuery[c],
      [i \in 1..Len(agentResponsesOf(c)) |->
          <<agentResponsesOf(c)[i].metadata[1].agentType, agentResponsesOf(c)[i].content>>]>>

\* an executeAgentPlan that goes on as soon as one capability has completed
promiseAnyResolves(c) ==
    /\ pc[c] = "executeAgentPlan"
    /\ \E i \in 1..Len(agentPromises(c)) : agentPromises(c)[i].pc = "done"
    /\ executionTime' = [executionTime EXCEPT ![c] = clock - startTime[c]]
    /\ IF Len(agentPromises(c)) = 1
       THEN /\ pc' = [pc EXCEPT ![c] = "returned"]
            /\ conversation' = [conversation EXCEPT ![c] =
                    @ \o agentResponsesOf(c)
                      \o <<synthesizeSingle(agentResponsesOf(c)[1], clock)>>]
            /\ called' = [called EXCEPT ![c] = @ \cup {"checkResponse"}]
       ELSE /\ pc' = [pc EXCEPT ![c] = "synthesize"]
            /\ called' = [called EXCEPT ![c] = @ \cup {"synthesis"}]
            /\ UNCHANGED conversation
    /\ UNCHANGED <<clock, shared, started, userQuery, startTime, rag, sql, order, last,
                   memo>>
    /\ UNCHANGED langChain

\* Promise.all resolves: lines 325-330, then synthesizeResponses either to
\* its end (one response, lines 375-393, and back through lines 331-333 and
\* 187-190) or up to its model call (line 412)
promiseAllResolves(c) ==
    /\ pc[c] = "executeAgentPlan"
    /\ \A i \in 1..Len(agentPromises(c)) : agentPromises(c)[i].pc = "done"
    /\ executionTime' = [executionTime EXCEPT ![c] = clock - startTime[c]]
    /\ IF Len(agentPromises(c)) = 1
       THEN /\ pc' = [pc EXCEPT ![c] = "returned"]
            /\ conversation' = [conversation EXCEPT ![c] =
                    @ \o agentResponsesOf(c)
                      \o <<synthesizeSingle(agentResponsesOf(c)[1], clock)>>]
            /\ called' = [called EXCEPT ![c] = @ \cup {"checkResponse"}]
       ELSE /\ pc' = [pc EXCEPT ![c] = "synthesize"]
            /\ called' = [called EXCEPT ![c] = @ \cup {"synthesis"}]
            /\ UNCHANGED conversation
    /\ UNCHANGED <<clock, shared, started, userQuery, startTime, rag, sql, order, last,
                   memo>>
    /\ UNCHANGED langChain

\* a synthesizeResponses without its catch: a raise of the model ends
\* processQuery
synthesisReturnsUncaught(c, E) ==
    /\ pc[c] = "synthesize"
    /\ \E reply \in E.synthesis :
        /\ Answers(E, "synthesis", synthesisPrompt(c), reply)
        /\ memo' = Remember(E, "synthesis", synthesisPrompt(c), reply)
        /\ last' = [last EXCEPT ![c] = Reply("synthesis", reply)]
        /\ IF reply.kind = "raise"
           THEN /\ pc' = [pc EXCEPT ![c] = "raised"]
                /\ UNCHANGED conversation
           ELSE /\ pc' = [pc EXCEPT ![c] = "returned"]
                /\ conversation' = [conversation EXCEPT ![c] =
                        @ \o agentResponsesOf(c)
                          \o <<synthesizeMulti(agentResponsesOf(c), reply,
                                               executionTime[c], clock)>>]
        /\ called' = [called EXCEPT ![c] =
                IF reply.kind = "raise" THEN @ ELSE @ \cup {"checkResponse"}]
    /\ UNCHANGED <<clock, shared, started, userQuery, startTime, executionTime, rag, sql,
                   order>>
    /\ UNCHANGED langChain

\* the model call of synthesizeResponses answers: lines 413-446, then back
\* through lines 331-333 and 187-190
synthesisReturns(c, E) ==
    /\ pc[c] = "synthesize"
    /\ \E reply \in E.synthesis :
        /\ Answers(E, "synthesis", synthesisPrompt(c), reply)
        /\ memo' = Remember(E, "synthesis", synthesisPrompt(c), reply)
        /\ last' = [last EXCEPT ![c] = Reply("synthesis", reply)]
        /\ conversation' = [conversation EXCEPT ![c] =
                @ \o agentResponsesOf(c)
                  \o <<synthesizeMulti(agentResponsesOf(c), reply, executionTime[c], clock)>>]
        /\ called' = [called EXCEPT ![c] =
                IF reply.kind = "raise" THEN @ ELSE @ \cup {"checkResponse"}]
    /\ pc' = [pc EXCEPT ![c] = "returned"]
    /\ UNCHANGED <<clock, shared, started, userQuery, startTime, executionTime, rag, sql,
                   order>>
    /\ UNCHANGED langChain

\* a millisecond passes
tick ==
    /\ clock < MaxClock
    /\ clock' = clock + 1
    /\ UNCHANGED <<shared, started, pc, userQuery, conversation, startTime,
                   executionTime, rag, sql, called, order, last, memo>>
    /\ UNCHANGED langChain


\* ------------------------------------------------ LangChainBigQueryAgent
\* The agent of createReactAgent runs the model and the tools in turns; the
\* model chooses the tool and its arguments. In the texts below the token
\* "~" is a backquote.

recursionLimit == 15

\* A call of the BigQuery client raises: an Error with a message, or
\* another value (None)
ClientRaise(error) == [kind |-> "raise", error |-> error]

\* error instanceof Error ? error.message : 'Unknown error'
errorMessage(error) == IF error = None THEN <<"Unknown error">> ELSE error[1]

\* String(n) of a small number
numeral(n) ==
    CASE n = 0 -> "0" [] n = 1 -> "1" [] n = 2 -> "2" [] n = 3 -> "3"
      [] n = 4 -> "4" [] n = 5 -> "5" [] n = 6 -> "6" [] n = 7 -> "7"

\* sql_db_list_tables: the ids of the tables, or the message of the failure
TablesData(ids) == [kind |-> "tables", ids |-> ids]

listTablesTool(reply) ==
    IF reply.kind = "raise"
    THEN <<"Unable to list tables: ">> \o errorMessage(reply.error)
    ELSE join([i \in 1..Len(reply.ids) |-> <<reply.ids[i]>>], <<", ">>)

\* table_names.split(',').map(name => name.trim())
RECURSIVE splitNames(_)
splitNames(s) ==
    LET marks == {k \in 1..Len(s) : s[k] = ","}
    IN  IF marks = {} THEN <<trim(s)>>
        ELSE <<trim(SubSeq(s, 1, SetMin(marks) - 1))>>
                 \o splitNames(SubSeq(s, SetMin(marks) + 1, Len(s)))

\* What BigQuery answers about one table: its metadata (None when
\* getMetadata raises; the fields, each a name, a type and a mode, or no
\* schema) and the rows of the sample query (None when it raises). A value
\* of a row is null (None) or a string given as its first 20 (sql_db_schema)
\* or 50 (sql_db_query) characters and the rest.
NoSchema == [fields |-> None]
Fields(fields) == [fields |-> Some(fields)]
TableData(metadata, sample) == [metadata |-> metadata, sample |-> sample]

\* the text of one value: NULL, the string, or its head and three dots
cellText(value) ==
    IF value = None THEN <<"NULL">>
    ELSE IF value[1][2] # "" THEN <<value[1][1], "...">>
    ELSE <<value[1][1]>>

fieldDescription(field) ==
    <<"    ~", field.name, "~ ", field.type>>
        \o (IF field.mode = "NULLABLE" THEN <<>> ELSE <<" NOT NULL">>)

\* lines 159-181: the sample rows of a table, under their headers
sampleText(tableId, sample, headers) ==
    IF sample = None THEN <<"/* Sample data unavailable for ", tableId, " */\n\n">>
    ELSE IF sample[1] = <<>> THEN <<>>
    ELSE <<"/*\n", numeral(Len(sample[1])), " rows from ", tableId, " table:\n">>
            \o join([h \in 1..Len(headers) |-> <<headers[h]>>], <<"\t">>) \o <<"\n">>
            \o join([r \in 1..Len(sample[1]) |->
                        join([h \in 1..Len(headers) |-> cellText(sample[1][r][h])],
                             <<"\t">>) \o <<"\n">>], <<>>)
            \o <<"*/\n\n">>

\* lines 137-189: what sql_db_schema writes for one requested table
tableSchemaText(requestedTable, found, data, headers) ==
    IF ~found THEN <<"Table ">> \o requestedTable \o <<" not found.\n\n">>
    ELSE IF data.metadata = None
    THEN <<"/* Error loading schema for ">> \o requestedTable \o <<" */\n\n">>
    ELSE <<"\nCREATE TABLE ~", "project.dataset.", requestedTable[1], "~ (\n">>
            \o (IF data.metadata[1].fields = None THEN <<>>
                ELSE join([f \in 1..Len(data.metadata[1].fields[1]) |->
                              fieldDescription(data.metadata[1].fields[1][f])],
                          <<",\n">>))
            \o <<"\n);\n\n">>
            \o sampleText(requestedTable[1], data.sample, headers)

\* sql_db_schema: reply is the failure of getTables, or the ids of the
\* tables with what BigQuery answers about each
CatalogData(ids, tables, headers) ==
    [kind |-> "catalog", ids |-> ids, tables |-> tables, headers |-> headers]

schemaInfoTool(table_names, reply) ==
    IF reply.kind = "raise"
    THEN <<"Unable to retrieve schema information: ">> \o errorMessage(reply.error)
    ELSE LET tableList == splitNames(table_names)
             known(name) == Len(name) = 1 /\ name[1] \in reply.ids
         IN  join([i \in 1..Len(tableList) |->
                      tableSchemaText(tableList[i], known(tableList[i]),
                          IF known(tableList[i]) THEN reply.tables[tableList[i][1]]
                          ELSE TableData(None, None),
                          reply.headers)], <<>>)

\* the sample queries sql_db_schema hands to BigQuery (line 160)
sampleQueries(table_names, reply) ==
    IF reply.kind = "raise" THEN {}
    ELSE {<<"SELECT", " ", "*", " ", "FROM", " ", "~project.dataset." , name[1], "~", " ",
            "LIMIT", " ", "3">> :
             name \in {n \in {splitNames(table_names)[i] :
                                  i \in 1..Len(splitNames(table_names))} :
                          /\ Len(n) = 1 /\ n[1] \in reply.ids
                          /\ reply.tables[n[1]].metadata # None}}

dangerousOps == <<"DROP", "DELETE", "INSERT", "UPDATE", "CREATE", "ALTER", "TRUNCATE">>

\* upperQuery.includes(op) on one token: the token is the operation or has
\* it as a part
tokenIncludes(t, op) ==
    \/ t = op
    \/ <<t, op>> \in {<<"CREATED_AT", "CREATE">>, <<"UPDATED_AT", "UPDATE">>}

\* sql_db_query_checker
queryCheckerTool(query) ==
    LET upperQuery == upperText(query)
        found == {k \in 1..Len(dangerousOps) :
                     \E i \in 1..Len(upperQuery) : tokenIncludes(upperQuery[i], dangerousOps[k])}
    IN  IF found # {}
        THEN <<"DANGER: Query contains potentially dangerous operation: ",
               dangerousOps[SetMin(found)], ". Only SELECT queries are allowed.">>
        ELSE IF ~(trim(upperQuery) # <<>> /\ trim(upperQuery)[1] = "SELECT")
        THEN <<"Query should start with SELECT. Current query: ">> \o query
        ELSE <<"~~~sql", "\n">> \o query \o <<"\n", "~~~">>

\* the checker answered with the query between fences
checkerAccepts(query) == queryCheckerTool(query) = <<"~~~sql", "\n">> \o query \o <<"\n", "~~~">>

\* sql_db_query: reply is what createQueryJob and getQueryResults give for
\* the query, rows under their headers or a raise
RowsData(headers, rows) == [kind |-> "rows", headers |-> headers, rows |-> rows]

rowText(headers, row, i) ==
    <<"Row ", numeral(i), ": ">>
        \o join([h \in 1..Len(headers) |-> <<headers[h], "=">> \o cellText(row[h])],
                <<", ">>)
        \o <<"\n">>

queryFailureText(errorMsg) ==
    IF \E i \in 1..Len(errorMsg) : errorMsg[i] = "bytes billed"
    THEN <<"Query execution failed: Query too expensive. Please use smaller tables like 'order_items' or 'users' instead of 'events' table. Add recent date filters (e.g., WHERE created_at >= TIMESTAMP_SUB(CURRENT_TIMESTAMP(), INTERVAL 7 DAY)) and use LIMIT 10.">>
    ELSE IF \E i \in 1..Len(errorMsg) :
                errorMsg[i] \in {"TABLESAMPLE", "Expected end of input but got keyword AS"}
    THEN <<"Query execution failed: TABLESAMPLE syntax error. The correct syntax is: FROM table_name TABLESAMPLE SYSTEM (1 PERCENT) AS alias. Please rewrite the query without TABLESAMPLE and use LIMIT 10 instead for sampling.">>
    ELSE IF \E i \in 1..Len(errorMsg) : errorMsg[i] = "Syntax error"
    THEN <<"Query execution failed with syntax error: ">> \o errorMsg
            \o <<". Please review the SQL syntax and rewrite the query. Focus on basic SELECT, FROM, WHERE, GROUP BY, ORDER BY clauses.">>
    ELSE <<"Query execution failed: ">> \o errorMsg
            \o <<". Please try a simpler approach with basic SQL syntax and smaller result sets (LIMIT 10).">>

executeQueryTool(reply) ==
    IF reply.kind = "raise" THEN queryFailureText(errorMessage(reply.error))
    ELSE IF Len(reply.rows) = 0
    THEN <<"Query executed successfully but returned no results.">>
    ELSE LET maxRows == MathMin(Len(reply.rows), 5)
         IN  <<"Query returned ", numeral(Len(reply.rows)), " rows:\n">>
                 \o join([i \in 1..maxRows |-> rowText(reply.headers, reply.rows[i], i)],
                         <<>>)
                 \o (IF Len(reply.rows) > 5
                     THEN <<"... and ", numeral(Len(reply.rows) - 5), " more rows\n">>
                     ELSE <<>>)

\* What the model may ask for and what BigQuery may answer in a run of the
\* LangChain agent
SelectTotal == <<"SELECT", " ", "total", " ", "FROM", " ", "sales">>
SelectRecent ==
    <<"SELECT", " ", "id", " ", "FROM", " ", "users", " ", "WHERE", " ", "created_at",
      " ", ">=", " ", "recent", " ", "LIMIT", " ", "10">>
DropSales == <<"DROP", " ", "TABLE", " ", "sales">>
ShowTables == <<"SHOW", " ", "TABLES">>

Statements == {SelectTotal, SelectRecent, DropSales, ShowTables}

ToolRequest(tool, input) == [tool |-> tool, input |-> input]

ToolRequests ==
    {ToolRequest("sql_db_list_tables", <<>>),
     ToolRequest("sql_db_schema", <<"sales", ",", " ", "returns">>)}
    \cup {ToolRequest("sql_db_query_checker", q) : q \in Statements}
    \cup {ToolRequest("sql_db_query", q) : q \in Statements}

\* the content of an AI message that asks for a tool, and of one that answers
ToolTurnContents == {<<>>}
AnswerContents == {<<>>, <<"Revenue", " ", "grew">>}

TablesReplies == {TablesData(<<"sales", "users">>), ClientRaise(Some(<<"access denied">>))}

SalesRow(n) == <<Some(<<numeral(n), "">>), IF n = 1 THEN None ELSE Some(<<"a long text", "more">>)>>

CatalogReplies ==
    {ClientRaise(None)}
    \cup {CatalogData({"sales", "users"}, [t \in {"sales", "users"} |-> data],
                      <<"id", "total">>) :
             data \in {TableData(None, None),
                       TableData(Some(NoSchema), None),
                       TableData(Some(Fields(<<[name |-> "id", type |-> "INTEGER",
                                                mode |-> "REQUIRED"],
                                               [name |-> "total", type |-> "STRING",
                                                mode |-> "NULLABLE"]>>)),
                                 Some(<<SalesRow(1), SalesRow(2)>>)),
                       TableData(Some(NoSchema), Some(<<>>))}}

QueryReplies ==
    {RowsData(<<"id", "total">>, <<>>),
     RowsData(<<"id", "total">>, [i \in 1..2 |-> SalesRow(i)]),
     RowsData(<<"id", "total">>, [i \in 1..6 |-> SalesRow(i)]),
     ClientRaise(Some(<<"Query exceeded limit for ", "bytes billed">>)),
     ClientRaise(Some(<<"Syntax error", ": Unexpected keyword DROP">>)),
     ClientRaise(None)}

\* the message of the Error that invoke raises when the graph reaches the
\* recursion limit, whose wording is the library's, and of another failure
RecursionErrors ==
    {Some(<<"Recursion limit of 15 reached">>), Some(<<"recursion limit", " reached">>)}
InvokeErrors == {Some(<<"fetch failed">>), None}

\* the variables of the supervisor; the LangChain agent shares none
supervisorVars ==
    <<clock, schemaCache, schemaWrites, conversationHistory, started, pc, userQuery,
      conversation, startTime, executionTime, rag, sql, called, order, last, memo>>

\* messages.filter(ai).map(content).slice(-3), kept as the run goes
lastThree(contents) ==
    IF Len(contents) <= 3 THEN contents ELSE SubSeq(contents, Len(contents) - 2, Len(contents))

AgentReturn(answer, reasoning, elapsed) ==
    [answer |-> answer, reasoning |-> reasoning, executionTime |-> elapsed]

\* lines 312-356: processQuery is called and invokes the graph
agentProcessQuery ==
    /\ langChain.pc = "idle"
    /\ langChain' = [langChain EXCEPT !.pc = "model", !.startTime = clock]
    /\ UNCHANGED supervisorVars

\* the model asks for a tool, with the input it chooses
modelCallsTool ==
    /\ langChain.pc = "model"
    /\ langChain.steps + 1 < recursionLimit
    /\ \E request \in ToolRequests : \E content \in ToolTurnContents :
          langChain' = [langChain EXCEPT !.pc = "tools", !.steps = @ + 1,
                                         !.pending = Some(request),
                                         !.ai = lastThree(Append(@, content))]
    /\ UNCHANGED supervisorVars

\* lines 106-120
listTablesReturns ==
    /\ langChain.pc = "tools"
    /\ langChain.pending[1].tool = "sql_db_list_tables"
    /\ \E reply \in TablesReplies :
          langChain' = [langChain EXCEPT !.pc = "model", !.steps = @ + 1,
                                         !.pending = None,
                                         !.observation = Some(listTablesTool(reply))]
    /\ UNCHANGED supervisorVars

\* lines 123-200; the sample queries need no acceptance and are not
\* statements of the model
schemaInfoReturns ==
    /\ langChain.pc = "tools"
    /\ langChain.pending[1].tool = "sql_db_schema"
    /\ \E reply \in CatalogReplies :
          langChain' = [langChain EXCEPT
                           !.pc = "model", !.steps = @ + 1, !.pending = None,
                           !.observation =
                               Some(schemaInfoTool(langChain.pending[1].input, reply))]
    /\ UNCHANGED supervisorVars

\* lines 203-233
queryCheckerReturns ==
    /\ langChain.pc = "tools"
    /\ langChain.pending[1].tool = "sql_db_query_checker"
    /\ \E query \in {langChain.pending[1].input} :
          langChain' = [langChain EXCEPT
                           !.pc = "model", !.steps = @ + 1, !.pending = None,
                           !.accepted = IF checkerAccepts(query) THEN @ \cup {query} ELSE @,
                           !.observation = Some(queryCheckerTool(query))]
    /\ UNCHANGED supervisorVars

\* lines 236-304: the query goes to createQueryJob as it came
executeQueryReturns ==
    /\ langChain.pc = "tools"
    /\ langChain.pending[1].tool = "sql_db_query"
    /\ \E reply \in QueryReplies :
          langChain' = [langChain EXCEPT
                           !.pc = "model", !.steps = @ + 1, !.pending = None,
                           !.submitted = @ \cup {langChain.pending[1].input},
                           !.observation = Some(executeQueryTool(reply))]
    /\ UNCHANGED supervisorVars

\* lines 358-372: the model answers without asking for a tool
modelAnswers ==
    /\ langChain.pc = "model"
    /\ \E content \in AnswerContents :
          langChain' = [langChain EXCEPT
                           !.pc = "returned", !.steps = @ + 1,
                           !.ai = lastThree(Append(@, content)),
                           !.returned = Some(AgentReturn(
                               IF content = <<>>
                               THEN <<"I was unable to process your query successfully.">>
                               ELSE content,
                               lastThree(Append(langChain.ai, content)),
                               clock - langChain.startTime))]
    /\ UNCHANGED supervisorVars

\* lines 374-392: invoke raises, at the recursion limit or when a call of
\* the model fails
invokeRaises ==
    /\ langChain.pc = "model"
    /\ \E error \in IF langChain.steps + 1 = recursionLimit
                    THEN RecursionErrors ELSE InvokeErrors :
          langChain' = [langChain EXCEPT
                           !.pc = "returned",
                           !.returned = Some(
                               IF error # None
                                  /\ \E i \in 1..Len(error[1]) : error[1][i] = "recursion limit"
                               THEN AgentReturn(
                                       <<"I encountered a complexity issue while analyzing your request. Let me provide a simplified analysis: For traffic source analysis, I recommend focusing on the top 3-5 sources and examining their performance over the last 7 days to identify any unusual patterns or significant changes.">>,
                                       <<<<"Query too complex, hitting recursion limit">>>>,
                                       clock - langChain.startTime)
                               ELSE AgentReturn(
                                       <<"I encountered an issue while analyzing your request. This might be due to BigQuery connection issues or query complexity. For traffic source analysis, I recommend examining recent data patterns and comparing current metrics with historical averages to identify anomalies.">>,
                                       <<<<"Error: ">> \o errorMessage(error)>>,
                                       clock - langChain.startTime))]
    /\ UNCHANGED supervisorVars

NextAgent ==
    \/ tick
    \/ agentProcessQuery
    \/ modelCallsTool
    \/ listTablesReturns
    \/ schemaInfoReturns
    \/ queryCheckerReturns
    \/ executeQueryReturns
    \/ modelAnswers
    \/ invokeRaises

SpecAgent == Init /\ [][NextAgent]_vars


\* ----------------------------------------------------------- environments

Queries ==
    {<<"Sales">>, <<"POLICY">>, <<"How", " ", "to", " ", "customers">>,
     <<"to", " ", "How">>}

SafetyReplies ==
    {SafetyRaise, SafetyUnparsable,
     SafetyJson(None, None, IssuesAbsent),
     SafetyJson(Some(TRUE), Some(950), IssuesArray(<<>>)),
     SafetyJson(Some(FALSE), Some(200), IssuesArray(<<<<"pii">>, <<"injection">>>>)),
     SafetyJson(Some(FALSE), None, IssuesAbsent),
     SafetyJson(Some(FALSE), Some(100), IssuesOther),
     SafetyJson(Some(FALSE), Some(1500), IssuesArray(<<>>))}

ReactReplies ==
    {ReactRaise, ReactNoJson, ReactBadJson,
     ReactJson(<<"RAG_AGENT">>, Some(900), PlanAbsent),
     ReactJson(<<"SQL_AGENT">>, None, PlanAbsent),
     ReactJson(<<"use both agents">>, Some(0), PlanAbsent),
     ReactJson(<<"BOTH">>, Some(900), PlanArray(<<SQL, RAG>>)),
     ReactJson(<<"BOTH">>, Some(900), PlanArray(<<>>)),
     ReactJson(<<"RAG_AGENT">>, Some(900), PlanArray(<<RAG, RAG>>)),
     ReactJson(<<"BOTH">>, Some(900), PlanArray(<<"ANALYTICS_AGENT">>)),
     ReactJson(<<"SQL_AGENT">>, Some(900), PlanString(<<"SQL_AGENT">>)),
     ReactJson(<<"BOTH">>, Some(900), PlanNumber)}

RagReplies ==
    {ModelRaise,
     ModelText(<<"restock", " ", "weekly">>),
     ModelText(<<"drop", " ", "table", " ", "Password">>)}

SchemaReplies ==
    {SchemaRaise, SchemaData(Some(<<"BigQuery Dataset: thelook">>)), SchemaData(None)}

SqlReplies ==
    {ModelRaise,
     ModelText(<<"SQL_QUERY:", " ", "SELECT", " ", "total", " ", "FROM", " ", "sales",
                 "\n", "ANALYSIS:", " ", "steady">>),
     ModelText(<<"SQL_QUERY:", "\n", "~~~sql", "\n", "select", " ", "customers", ";",
                 "\n", "~~~", "\n", "INSIGHTS:", " ", "loyal">>),
     ModelText(<<"SQL_QUERY:", " ", "DROP", " ", "TABLE", " ", "sales">>),
     ModelText(<<"SQL_QUERY:", " ", "SELECT", " ", "x", ";", " ", "DROP", " ", "TABLE",
                 " ", "x">>),
     ModelText(<<"SQL_QUERY:", " ", "~~~", "\n", "SELECT", " ", "x", "\n", "~~~">>),
     ModelText(<<"SQL_QUERY:", "\n", "ANALYSIS:", " ", "steady">>),
     ModelText(<<"steady", "\n", "SQL_QUERY:", " ">>),
     ModelText(<<"steady", " ", "SELECT", " ", "x">>)}

LiveRows == executeQueryResult(Rows(2, {"id", "total"}), Some(<<"id", "total">>))
LiveEmpty == executeQueryResult(<<>>, Some(<<"id", "total">>))
LiveNoSchema == executeQueryResult(Rows(3, {"id", "total"}), None)

ExecuteReplies ==
    {ExecRaise(Some(<<"network down">>)), ExecRaise(None),
     ExecData(TRUE, Some(LiveRows), None),
     ExecData(TRUE, Some(LiveEmpty), None),
     ExecData(FALSE, None, Some(<<"bytes billed limit exceeded">>)),
     ExecData(FALSE, None, None)}

SynthesisReplies ==
    {ModelRaise, ModelText(<<"sales", " ", "grew">>),
     ModelText(<<"confidential", " ", "figures">>)}

\* one caller at a time, every reply of every port
Sequential ==
    [queries |-> Queries, checkQuery |-> SafetyReplies, performReAct |-> ReactReplies,
     rag |-> RagReplies, schema |-> SchemaReplies, sql |-> SqlReplies,
     execute |-> ExecuteReplies, synthesis |-> SynthesisReplies,
     silent |-> {"rag", "schema", "sql", "execute"},
     deterministic |-> FALSE, overlap |-> FALSE, reuse |-> TRUE, slots |-> {1}]

\* a step of invocation c in which a port answers or a promise resolves
proceeds(c, E) ==
    \/ processQuery(c, E)
    \/ checkQueryReturns(c, E)
    \/ performReActReturns(c, E)
    \/ ragModelReturns(c, E)
    \/ schemaReturns(c, E)
    \/ sqlModelReturns(c, E)
    \/ executeReturns(c, E)
    \/ promiseAllResolves(c)
    \/ synthesisReturns(c, E)

step(c, E) == proceeds(c, E) \/ neverResponds(c, E)

Next == \E c \in Calls : step(c, Sequential)

Spec == Init /\ [][Next]_vars

SelectSales ==
    ModelText(<<"SQL_QUERY:", " ", "SELECT", " ", "total", " ", "FROM", " ", "sales",
                "\n", "ANALYSIS:", " ", "steady">>)

\* callers that do not wait for one another, on one SupervisorAgent and so
\* on one SQLAgent; every plan names both capabilities and no port is silent
Concurrent ==
    [queries |-> {<<"to", " ", "How">>}, checkQuery |-> {SafetyUnparsable},
     performReAct |-> {ReactNoJson},
     rag |-> {ModelText(<<"restock", " ", "weekly">>)},
     schema |-> {SchemaRaise, SchemaData(Some(<<"BigQuery Dataset: thelook">>))},
     sql |-> {SelectSales},
     execute |-> {ExecData(TRUE, Some(LiveRows), None)},
     synthesis |-> {ModelText(<<"sales", " ", "grew">>)},
     silent |-> {},
     deterministic |-> FALSE, overlap |-> TRUE, reuse |-> FALSE, slots |-> Calls]

NextConc == \E c \in Calls : proceeds(c, Concurrent)

SpecConc == Init /\ [][NextConc]_vars

\* one caller at a time, a few replies per port, and ports that may stay
\* silent
Hanging ==
    [queries |-> {<<"to", " ", "How">>, <<"Sales">>},
     checkQuery |-> {SafetyUnparsable, SafetyJson(Some(FALSE), None, IssuesAbsent)},
     performReAct |-> {ReactNoJson},
     rag |-> {ModelRaise, ModelText(<<"restock", " ", "weekly">>)},
     schema |-> {SchemaRaise, SchemaData(Some(<<"BigQuery Dataset: thelook">>))},
     sql |-> {SelectSales, ModelRaise},
     execute |-> {ExecData(TRUE, Some(LiveRows), None), ExecRaise(None)},
     synthesis |-> {ModelRaise, ModelText(<<"sales", " ", "grew">>)},
     silent |-> {"rag", "schema", "sql", "execute"},
     deterministic |-> FALSE, overlap |-> FALSE, reuse |-> TRUE, slots |-> {1}]

NextHang == \E c \in Calls : step(c, Hanging)

\* the event loop runs every continuation whose promise has settled, and a
\* port that is not silent answers
LiveSpec == Init /\ [][NextHang]_vars /\ \A c \in Calls : WF_vars(proceeds(c, Hanging))

\* two runs, one after the other, against fakes that answer equal requests
\* with equal replies, while the clock advances
Deterministic ==
    [queries |-> {<<"to", " ", "How">>, <<"Sales">>},
     checkQuery |-> {SafetyUnparsable, SafetyJson(Some(FALSE), None, IssuesAbsent)},
     performReAct |-> {ReactNoJson, ReactJson(<<"RAG_AGENT">>, Some(900), PlanAbsent)},
     rag |-> {ModelRaise, ModelText(<<"restock", " ", "weekly">>)},
     schema |-> {SchemaRaise, SchemaData(Some(<<"BigQuery Dataset: thelook">>))},
     sql |-> {SelectSales, ModelRaise},
     execute |-> {ExecData(TRUE, Some(LiveRows), None), ExecRaise(None)},
     synthesis |-> {ModelRaise, ModelText(<<"sales", " ", "grew">>)},
     silent |-> {},
     deterministic |-> TRUE, overlap |-> FALSE, reuse |-> FALSE, slots |-> {1, 2}]

NextDet == tick \/ \E c \in Calls : proceeds(c, Deterministic)

SpecDet == Init /\ [][NextDet]_vars

\* a text that matches exactly the disallowed patterns of S
patternText(p) ==
    CASE p = 1 -> <<"DROP", " ", "TABLE">>
      [] p = 2 -> <<"DELETE", "\n", " ", "FROM">>
      [] p = 3 -> <<"Password">>
      [] p = 4 -> <<"confidential">>

RECURSIVE textOf(_, _)
textOf(S, p) ==
    IF p > 4 THEN <<"sales">>
    ELSE (IF p \in S THEN patternText(p) ELSE <<"total">>) \o <<" ">> \o textOf(S, p + 1)

\* the texts the output filter is given: one per set of matched patterns,
\* and texts that come close to a pattern without matching it
ScreenedTexts ==
    {ModelText(textOf(S, 1)) : S \in SUBSET (1..4)}
    \cup {ModelText(<<"DROP", "TABLE", " ", "DELETE", "total", "FROM">>),
          ModelText(<<"TABLE", " ", "DROP", " ", "FROM", " ", "DELETE">>)}

\* one caller at a time, both capabilities, every screened text as the
\* synthesis model's answer
Screening ==
    [queries |-> {<<"Sales">>}, checkQuery |-> {SafetyUnparsable},
     performReAct |-> {ReactJson(<<"BOTH">>, Some(900), PlanAbsent)},
     rag |-> {ModelText(textOf({}, 1)), ModelText(textOf({1, 2, 3, 4}, 1))},
     schema |-> {SchemaData(Some(<<"BigQuery Dataset: thelook">>))},
     sql |-> {SelectSales},
     execute |-> {ExecData(TRUE, Some(LiveRows), None)},
     synthesis |-> ScreenedTexts,
     silent |-> {},
     deterministic |-> FALSE, overlap |-> FALSE, reuse |-> TRUE, slots |-> {1}]

NextScreen == \E c \in Calls : proceeds(c, Screening)

SpecScreen == Init /\ [][NextScreen]_vars

\* one caller at a time, the query capability alone or with the knowledge
\* capability, every reply of the SQL model and of the backend, and
\* statements for each kind of simulated result
Querying ==
    [queries |-> {<<"Sales">>}, checkQuery |-> {SafetyUnparsable},
     performReAct |-> {ReactJson(<<"SQL_AGENT">>, Some(900), PlanAbsent),
                       ReactJson(<<"RAG_AGENT">>, Some(900), PlanAbsent),
                       ReactJson(<<"BOTH">>, Some(900), PlanAbsent)},
     rag |-> {ModelText(<<"restock", " ", "weekly">>)},
     schema |-> {SchemaRaise, SchemaData(Some(<<"BigQuery Dataset: thelook">>))},
     sql |-> SqlReplies \cup
             {ModelText(<<"SQL_QUERY:", " ", "SELECT", " ", "stock", " ", "FROM", " ",
                          "products">>),
              ModelText(<<"SQL_QUERY:", " ", "SELECT", " ", "inventory">>),
              ModelText(<<"SQL_QUERY:", " ", "SELECT", " ", "sum", " ", "FROM", " ",
                          "sales">>)},
     execute |-> ExecuteReplies \cup {ExecData(TRUE, Some(LiveNoSchema), None)},
     synthesis |-> {ModelText(<<"sales", " ", "grew">>)},
     silent |-> {},
     deterministic |-> FALSE, overlap |-> FALSE, reuse |-> TRUE, slots |-> {1}]

NextQuery == \E c \in Calls : proceeds(c, Querying)

SpecQuery == Init /\ [][NextQuery]_vars

\* overlapping invocations with different queries, each port with one reply
Mixing ==
    [queries |-> {<<"POLICY">>, <<"Sales">>, <<"to", " ", "How">>},
     checkQuery |-> {SafetyUnparsable},
     performReAct |-> {ReactNoJson},
     rag |-> {ModelText(<<"restock", " ", "weekly">>)},
     schema |-> {SchemaData(Some(<<"BigQuery Dataset: thelook">>))},
     sql |-> {SelectSales},
     execute |-> {ExecData(TRUE, Some(LiveRows), None)},
     synthesis |-> {ModelText(<<"sales", " ", "grew">>)},
     silent |-> {},
     deterministic |-> FALSE, overlap |-> TRUE, reuse |-> FALSE, slots |-> Calls]

NextMix == \E c \in Calls : proceeds(c, Mixing)

SpecMix == Init /\ [][NextMix]_vars


\* ================================================================ claims

\* the verdict checkQuery gave when it was the supervisor's latest step
rejected(c) == last[c].site = "checkQuery" /\ ~checkQuery(last[c].reply).safe

\* the steps of the trace, by role
rolesOf(c) == [i \in 1..Len(conversation[c]) |-> conversation[c][i].role]

\* C1: whenever checkQuery returns safe = false, processQuery returns a
\* conversation of exactly one step, of role 'safety', whose content holds
\* the issues joined by ', ' and whose safetyScore is the verdict's score,
\* and neither the classification call nor a capability has been invoked.
C1_RejectedQueryYieldsOneSafetyStep ==
    \A c \in Calls :
        rejected(c) =>
            LET safetyCheck == checkQuery(last[c].reply)
            IN  /\ pc[c] = "returned"
                /\ rolesOf(c) = <<"safety">>
                /\ conversation[c][1].content =
                       <<"I cannot process this query due to safety concerns: ">>
                           \o join(safetyCheck.issues.items, <<", ">>)
                /\ conversation[c][1].metadata[1].safetyScore = Some(safetyCheck.score)
                /\ called[c] = {"checkQuery"}
                /\ rag[c].pc = "off" /\ sql[c].pc = "off"


\* the statement a generated text holds, after fence stripping, whitespace
\* collapse and trim; None when the text holds none
statementOf(text) ==
    IF sqlMatch(text) = None THEN None ELSE Some(cleanSqlQuery(trim(sqlMatch(text)[1])))

\* the SQL model of the invocation answered with a text
generated(c) == sql[c].last.site \in {"sql", "execute"} /\ sql[c].text # <<>>

\* C2: a generated statement that, once cleaned, does not begin with SELECT
\* (any case), or that cannot be extracted, is never sent to the backend:
\* the response carries no sqlQuery and the execute call is not made; what
\* is sent begins with SELECT.
C2_OnlySelectIsSent ==
    \A c \in Calls :
        /\ sql[c].sent # None =>
              /\ generated(c)
              /\ sql[c].sent = statementOf(sql[c].text)
              /\ toUpperCase(sql[c].sent[1][1]) = "SELECT"
        /\ (/\ generated(c)
            /\ \/ statementOf(sql[c].text) = None
               \/ statementOf(sql[c].text) = Some(<<>>)
               \/ toUpperCase(statementOf(sql[c].text)[1][1]) # "SELECT") =>
              /\ sql[c].sent = None
              /\ sql[c].pc = "done"
              /\ sql[c].response[1].sqlQuery = None
              /\ sql[c].msg[1].metadata[1].sqlQuery = None
              /\ "execute" \notin called[c]
              /\ sql[c].response[1].metadata[1].usingRealData = FALSE

\* a DROP statement was generated and the capability answered without
\* executing anything
C2_Witness ==
    \E c \in Calls :
        /\ sql[c].pc = "done"
        /\ sql[c].last = Reply("sql", ModelText(<<"SQL_QUERY:", " ", "DROP", " ", "TABLE", " ", "sales">>))
        /\ statementOf(sql[c].text) = Some(<<"DROP", " ", "TABLE", " ", "sales">>)
        /\ sql[c].sent = None

\* the response of the capability came from a failed execute call
executeFailed(c) ==
    /\ sql[c].pc = "done"
    /\ sql[c].last.site = "execute"
    /\ sql[c].last.reply.kind = "raise" \/ ~sql[c].last.reply.success

\* the error text the capability captured from a failed execute call
capturedError(reply) ==
    IF reply.kind = "raise" /\ reply.error = None
    THEN Some(<<"Query execution failed">>) ELSE reply.error

\* C3: when a validated statement is executed and the backend call fails
\* (it raises or answers success = false), SQLAgent.processQuery answers
\* with a response that marks usingRealData = false, carries the captured
\* executionError, and holds the simulated result, of at least one row.
C3_FailedExecutionIsSimulated ==
    \A c \in Calls :
        executeFailed(c) =>
            LET response == sql[c].response[1]
            IN  /\ response.agent = "SQL_AGENT"
                /\ response.metadata # None
                /\ response.metadata[1].usingRealData = FALSE
                /\ response.metadata[1].dataSource = "Simulated"
                /\ response.metadata[1].executionError = capturedError(sql[c].last.reply)
                /\ Len(response.toolCalls) = 1
                /\ response.toolCalls[1].toolName = "SQL_Database_Simulator"
                /\ Len(response.toolCalls[1].result) >= 1
                /\ response.toolCalls[1].result = simulateQueryExecution(sql[c].sent).rows
                /\ response.sqlQuery = sql[c].sent

\* the backend raised on a SELECT statement and the customer rows were
\* simulated
C3_Witness ==
    \E c \in Calls :
        /\ executeFailed(c)
        /\ sql[c].last.reply = ExecRaise(Some(<<"network down">>))
        /\ sql[c].sent = Some(<<"select", " ", "customers">>)
        /\ Len(sql[c].response[1].toolCalls[1].result) = 3


\* the delegation plan the invocation recorded in its supervisor step
recordedPlan(c) == planOf(conversation[c][2])

\* the invocation has a recorded plan that names both capabilities
bothPlanned(c) ==
    /\ pc[c] \in {"executeAgentPlan", "synthesize", "returned"}
    /\ Len(conversation[c]) >= 2
    /\ planIncludes(recordedPlan(c), RAG)
    /\ planIncludes(recordedPlan(c), SQL)

\* C4: when the plan names both capabilities, both are started before
\* either is awaited, the synthesis does not start until both have
\* completed, and the returned trace holds a rag_agent and a sql_agent step
\* whichever of the two completed first.
C4_BothStartedBothAwaited ==
    \A c \in Calls :
        bothPlanned(c) =>
            /\ rag[c].pc # "off" /\ sql[c].pc # "off"
            /\ "rag" \in called[c]
            /\ "schema" \in called[c] \/ "sql" \in called[c]
            /\ ("synthesis" \in called[c] \/ pc[c] \in {"synthesize", "returned"}) =>
                  /\ rag[c].pc = "done" /\ sql[c].pc = "done"
                  /\ order[c] \in {<<RAG, SQL>>, <<SQL, RAG>>}
            /\ pc[c] = "returned" =>
                  /\ rolesOf(c) = <<"user", "supervisor", "rag_agent", "sql_agent",
                                    "supervisor">>
                  /\ conversation[c][3] = rag[c].msg[1]
                  /\ conversation[c][4] = sql[c].msg[1]

\* the SQL capability completed first, and the trace holds both steps
C4_Witness ==
    \E c \in Calls :
        /\ bothPlanned(c)
        /\ pc[c] = "returned"
        /\ order[c] = <<SQL, RAG>>
        /\ rolesOf(c) = <<"user", "supervisor", "rag_agent", "sql_agent", "supervisor">>

\* the last step of the trace
lastStep(c) == conversation[c][Len(conversation[c])]

\* C5: no call of the model, the schema provider or the backend that raises
\* or answers with unparsable output makes processQuery raise, at any call
\* site and in any combination, and a returned trace that is not a
\* rejection ends with a synthesis step of the supervisor.
C5_FailuresAreAbsorbed ==
    \A c \in Calls :
        /\ pc[c] = "raised" => last[c].reply.kind = "json"
        /\ (pc[c] = "returned" /\ ~rejected(c)) =>
              /\ Len(conversation[c]) >= 3
              /\ lastStep(c).role = "supervisor"
              /\ lastStep(c).metadata[1].agentType = Some("SUPERVISOR_SYNTHESIS")

\* every port raised: the classifier calls fell back, both capabilities
\* answered with their fallbacks, and the synthesis fell back too
C5_Witness ==
    \E c \in Calls :
        /\ pc[c] = "returned"
        /\ Len(conversation[c]) = 5
        /\ conversation[c][2] = fallbackReActMessage(userQuery[c], 0)
        /\ rag[c].last = Reply("rag", ModelRaise)
        /\ sql[c].last = Reply("sql", ModelRaise)
        /\ schemaCache = Some(getFallbackSchema)
        /\ last[c] = Reply("synthesis", ModelRaise)
        /\ lastStep(c).metadata[1].reasoning =
               Some(<<"Fallback synthesis due to processing error">>)

\* C6: the delegation plan recorded in the supervisor step and used to
\* start capabilities is a non-empty array without duplicates whose
\* elements are among RAG_AGENT and SQL_AGENT, whatever delegationPlan the
\* model's JSON supplies.
C6_PlanIsValidSubset ==
    \A c \in Calls :
        Len(conversation[c]) >= 2 =>
            LET plan == recordedPlan(c)
            IN  /\ plan.kind = "array"
                /\ plan.items # <<>>
                /\ \A i \in 1..Len(plan.items) : plan.items[i] \in {RAG, SQL}
                /\ \A i, j \in 1..Len(plan.items) : plan.items[i] = plan.items[j] => i = j

\* the plan of the keyword classifier, as the claim words it
keywordPlan(query) ==
    IF hasSqlKeywords(query) /\ ~hasRagKeywords(query) THEN <<SQL>>
    ELSE IF hasRagKeywords(query) /\ ~hasSqlKeywords(query) THEN <<RAG>>
    ELSE <<RAG, SQL>>

\* the classification call raised or answered without parsable JSON
classifiedByKeywords(c) ==
    /\ last[c].site = "performReAct"
    /\ last[c].reply.kind \in {"raise", "nojson", "badjson"}

\* C7: when the classification call raises or answers without parsable
\* JSON, the plan is the keyword classifier's: SQL_AGENT alone when the
\* query holds a SQL keyword and no RAG keyword, RAG_AGENT alone when it
\* holds a RAG keyword and no SQL keyword, both otherwise; the capabilities
\* started are those of the plan.
C7_KeywordFallbackPlan ==
    \A c \in Calls :
        classifiedByKeywords(c) =>
            /\ pc[c] # "raised"
            /\ recordedPlan(c) = PlanArray(keywordPlan(userQuery[c]))
            /\ rag[c].pc # "off" <=> hasRagKeywords(userQuery[c]) \/ ~hasSqlKeywords(userQuery[c])
            /\ sql[c].pc # "off" <=> hasSqlKeywords(userQuery[c]) \/ ~hasRagKeywords(userQuery[c])
            /\ userQuery[c] = <<"Sales">> => recordedPlan(c).items = <<SQL>>
            /\ userQuery[c] = <<"POLICY">> => recordedPlan(c).items = <<RAG>>
            /\ userQuery[c] = <<"How", " ", "to", " ", "customers">> =>
                  recordedPlan(c).items = <<RAG, SQL>>
            /\ userQuery[c] = <<"to", " ", "How">> => recordedPlan(c).items = <<RAG, SQL>>

\* the model answered without JSON on a query that holds both a SQL and a
\* RAG keyword, and both capabilities were started
C7_Witness ==
    \E c \in Calls :
        /\ last[c] = Reply("performReAct", ReactNoJson)
        /\ userQuery[c] = <<"How", " ", "to", " ", "customers">>
        /\ recordedPlan(c) = PlanArray(<<RAG, SQL>>)
        /\ rag[c].pc # "off" /\ sql[c].pc # "off"


\* C8: when invocations that share one SQLAgent overlap, its schema cache
\* is written at most once: once it holds a value no call overwrites it.
C8_SchemaCacheWrittenOnce == schemaWrites <= 1

\* C9: an invocation whose classification has been made eventually returns,
\* also when the call of one of its capabilities never answers.
C9_EventuallyReturns ==
    \A c \in Calls : (pc[c] = "executeAgentPlan") ~> (pc[c] = "returned")

\* steps that are equal but for id and timestamp
sameStep(m, n) ==
    /\ m.role = n.role
    /\ m.content = n.content
    /\ m.metadata = n.metadata

\* steps that are equal but for id, timestamp and reasoning
sameButReasoning(m, n) ==
    /\ m.role = n.role
    /\ m.content = n.content
    /\ (m.metadata = None) = (n.metadata = None)
    /\ m.metadata # None =>
          [m.metadata[1] EXCEPT !.reasoning = None] =
              [n.metadata[1] EXCEPT !.reasoning = None]

\* both runs have returned, and they had the same query
sameInput(c, d) ==
    /\ pc[c] = "returned" /\ pc[d] = "returned"
    /\ userQuery[c] = userQuery[d]

\* C10: two runs of processQuery on the same query, against fakes that
\* answer equal requests with equal replies, return traces with the same
\* roles in the same order and, step by step, the same content and the same
\* metadata (reasoning, toolUsed, confidence, sources, sqlQuery,
\* safetyScore, delegationPlan); only id and timestamp may differ.
C10_RunsAgree ==
    \A c, d \in Calls :
        sameInput(c, d) =>
            /\ rolesOf(c) = rolesOf(d)
            /\ \A i \in 1..Len(conversation[c]) :
                  sameStep(conversation[c][i], conversation[d][i])

\* what the two runs do agree on: every step but for id and timestamp,
\* except that the reasoning of a synthesis of several responses holds the
\* milliseconds executeAgentPlan measured
RunsAgreeButElapsedTime ==
    \A c, d \in Calls :
        sameInput(c, d) =>
            /\ rolesOf(c) = rolesOf(d)
            /\ \A i \in 1..Len(conversation[c]) :
                  /\ sameButReasoning(conversation[c][i], conversation[d][i])
                  /\ \/ sameStep(conversation[c][i], conversation[d][i])
                     \/ /\ i = Len(conversation[c])
                        /\ conversation[c][i].metadata[1].reasoning =
                               Some(<<"Multi-agent synthesis completed in ",
                                      ToString(executionTime[c]), "ms">>)
                        /\ conversation[d][i].metadata[1].reasoning =
                               Some(<<"Multi-agent synthesis completed in ",
                                      ToString(executionTime[d]), "ms">>)
                        /\ executionTime[c] # executionTime[d]

\* ------------------------------------------------------------------- C11

\* the classifier call of invocation c raised or gave no parsable verdict
classifierFailed(c) ==
    /\ last[c].site = "checkQuery"
    /\ last[c].reply.kind \in {"raise", "unparsable"}

\* C11: when the classifier call raises or its reply cannot be parsed,
\* checkQuery returns safe = true with the reduced score (0.7 for a raise,
\* 0.8 for an unparsable reply), and processQuery goes on to the supervisor
\* with the user message as its only step: it never takes the rejected path.
C11_ClassifierFailureIsAccepted ==
    \A c \in Calls : classifierFailed(c) =>
        /\ checkQuery(last[c].reply).safe
        /\ checkQuery(last[c].reply).score =
              (IF last[c].reply.kind = "raise" THEN 700 ELSE 800)
        /\ pc[c] = "performReAct"
        /\ Len(conversation[c]) = 1
        /\ conversation[c][1].role = "user"
        /\ conversation[c][1].content = userQuery[c]

C11_Witness ==
    \E c \in Calls :
        /\ last[c] = Reply("checkQuery", SafetyRaise)
        /\ pc[c] = "performReAct"
        /\ conversation[c][1].role = "user"

C11_WitnessUnparsable ==
    \E c \in Calls :
        /\ last[c] = Reply("checkQuery", SafetyUnparsable)
        /\ pc[c] = "performReAct"

\* ------------------------------------------------------------------- C12

\* invocation c has returned a trace that ends with a synthesis step
synthesized(c) ==
    /\ pc[c] = "returned"
    /\ Len(conversation[c]) >= 3
    /\ lastStep(c).metadata[1].agentType = Some("SUPERVISOR_SYNTHESIS")

\* the synthesis of invocation c took the concatenation fallback
concatenated(c) ==
    /\ synthesized(c)
    /\ last[c].site = "synthesis"
    /\ last[c].reply.kind = "raise"

\* C12: the content of the synthesis step of every returned trace has been
\* passed through checkResponse, on every synthesis path: the single
\* capability wrap, the model synthesis of several capabilities, and the
\* concatenation used when the synthesis model call fails.
C12_SynthesisIsScreened ==
    \A c \in Calls : synthesized(c) =>
        /\ "checkResponse" \in called[c]
        /\ lastStep(c).metadata[1].safetyScore \in
              {Some(checkResponse(text).score) :
                  text \in {lastStep(c).content} \cup
                      (IF last[c].site = "synthesis" /\ last[c].reply.kind = "text"
                       THEN {last[c].reply.text} ELSE {})}

\* the two screened paths alone: what C12 says holds there
C12_ScreenedUnlessConcatenated ==
    \A c \in Calls : synthesized(c) /\ ~concatenated(c) =>
        "checkResponse" \in called[c]

\* ------------------------------------------------------------------- C13

\* the text synthesizeResponses hands to checkResponse in invocation c: the
\* only capability's content, or the synthesis model's text
synthesizedText(c) ==
    IF last[c].site = "synthesis" THEN last[c].reply.text
    ELSE conversation[c][Len(conversation[c]) - 1].content

complianceMessages ==
    {<<"I've generated a response but it needs review for safety compliance.">>,
     <<"I've analyzed multiple data sources but need to review the response for compliance.">>}

\* the synthesis of invocation c was screened and found unsafe
ratedUnsafe(c) ==
    /\ synthesized(c)
    /\ ~concatenated(c)
    /\ ~checkResponse(synthesizedText(c)).safe

\* C13: whenever checkResponse rates the synthesized text unsafe, the
\* synthesis step's content is the fixed compliance-review message and holds
\* none of the rejected text, and its safetyScore is checkResponse's score.
C13_UnsafeSynthesisIsReplaced ==
    \A c \in Calls : ratedUnsafe(c) =>
        /\ lastStep(c).content \in complianceMessages
        /\ \A i \in 1..Len(synthesizedText(c)) : \A k \in 1..Len(lastStep(c).content) :
              ~IsSpace(synthesizedText(c)[i]) =>
                  lastStep(c).content[k] # synthesizedText(c)[i]
        /\ lastStep(c).metadata[1].safetyScore =
              Some(checkResponse(synthesizedText(c)).score)
        /\ checkResponse(synthesizedText(c)).score < 950

C13_Witness ==
    \E c \in Calls :
        /\ ratedUnsafe(c)
        /\ last[c].reply = ModelText(<<"confidential", " ", "figures">>)
        /\ lastStep(c).metadata[1].safetyScore = Some(750)

\* ------------------------------------------------------------------- C14

\* the capability steps of a returned trace: what lies between the
\* supervisor step and the synthesis step
capabilitySteps(c) == SubSeq(conversation[c], 3, Len(conversation[c]) - 1)

RECURSIVE sumOf(_)
sumOf(numbers) == IF numbers = <<>> THEN 0 ELSE Head(numbers) + sumOf(Tail(numbers))

\* the mean of the confidences the capability steps carry; of no steps it is
\* 0/0, not a number
meanConfidence(c) ==
    IF capabilitySteps(c) = <<>> THEN NaN
    ELSE sumOf([i \in 1..Len(capabilitySteps(c)) |->
                  capabilitySteps(c)[i].metadata[1].confidence[1]])
            \div Len(capabilitySteps(c))

\* the minimum of two numbers; not a number when one of them is not
minimum(a, b) == IF a = NaN \/ b = NaN THEN NaN ELSE IF a <= b THEN a ELSE b

\* a exceeds b: false of what is not a number
exceeds(a, b) == a # NaN /\ b # NaN /\ a > b

\* C14: for every synthesis that does not take the model-failure fallback,
\* the synthesis confidence is the minimum of the mean of the capability
\* steps' confidences and the output safety score (with one capability: of
\* that capability's confidence and the score), so it never exceeds the
\* output safety score.
C14_ConfidenceIsMinOfMeanAndScore ==
    \A c \in Calls : synthesized(c) /\ ~concatenated(c) =>
        /\ lastStep(c).metadata[1].confidence =
              Some(minimum(meanConfidence(c), lastStep(c).metadata[1].safetyScore[1]))
        /\ ~exceeds(lastStep(c).metadata[1].confidence[1],
                    lastStep(c).metadata[1].safetyScore[1])
        /\ capabilitySteps(c) # <<>> =>
              /\ lastStep(c).metadata[1].confidence[1] # NaN
              /\ lastStep(c).metadata[1].confidence[1] <=
                    lastStep(c).metadata[1].safetyScore[1]
        /\ lastStep(c).metadata[1].safetyScore[1] =
              checkResponse(synthesizedText(c)).score

C14_Witness ==
    \E c \in Calls :
        /\ synthesized(c) /\ ~concatenated(c)
        /\ Len(capabilitySteps(c)) = 2
        /\ capabilitySteps(c)[1].metadata[1].confidence = Some(600)
        /\ capabilitySteps(c)[2].metadata[1].confidence = Some(950)
        /\ lastStep(c).metadata[1].safetyScore = Some(750)
        /\ lastStep(c).metadata[1].confidence = Some(750)

C14_WitnessSingle ==
    \E c \in Calls :
        /\ synthesized(c)
        /\ Len(capabilitySteps(c)) = 1
        /\ lastStep(c).metadata[1].confidence = Some(600)
        /\ lastStep(c).metadata[1].safetyScore = Some(950)

\* a plan without capabilities: the mean of no confidences
C14_WitnessNoCapability ==
    \E c \in Calls :
        /\ synthesized(c) /\ ~concatenated(c)
        /\ capabilitySteps(c) = <<>>
        /\ lastStep(c).metadata[1].confidence = Some(NaN)

\* ------------------------------------------------------------------- C15

\* the capabilities the recorded plan of invocation c names
plannedCapabilities(c) == {a \in {RAG, SQL} : planIncludes(recordedPlan(c), a)}

\* the agentType a capability's step carries
stepTypeOf(a) == IF a = RAG THEN "RAG_AGENT" ELSE "SQL_AGENT"

\* invocation c returned after its input was classified to one capability
singleCapability(c) ==
    /\ pc[c] = "returned"
    /\ Len(conversation[c]) >= 2
    /\ conversation[c][1].role = "user"
    /\ Cardinality(plannedCapabilities(c)) = 1

\* C15: for every input classified to a single capability, the trace has
\* exactly one capability step, of the capability the plan names, and
\* exactly one synthesis step, whose content is the fixed prefix followed by
\* that capability step's content.
C15_SingleCapabilityTrace ==
    \A c \in Calls : singleCapability(c) =>
        /\ Len(conversation[c]) = 4
        /\ conversation[c][2].metadata[1].agentType = Some("SUPERVISOR_REACT")
        /\ \E a \in plannedCapabilities(c) :
              conversation[c][3].metadata[1].agentType = Some(stepTypeOf(a))
        /\ conversation[c][4].metadata[1].agentType = Some("SUPERVISOR_SYNTHESIS")
        /\ conversation[c][4].content =
              <<"Based on the analysis, here's what I found:\n\n">>
                  \o conversation[c][3].content

C15_Witness ==
    \E c \in Calls :
        /\ singleCapability(c)
        /\ plannedCapabilities(c) = {SQL}
        /\ Len(conversation[c]) = 4
        /\ conversation[c][3].metadata[1].sqlQuery # None
        /\ conversation[c][4].content[1] = "Based on the analysis, here's what I found:\n\n"

\* ------------------------------------------------------------------- C16

\* C16: apart from the SQLAgent schema cache, no component keeps state that
\* changes across processQuery calls: the supervisor's conversationHistory
\* is what the constructor made it, whatever calls have been served.
C16_NoStateButSchemaCache == conversationHistory = <<>>

\* what holds of the history: it keeps the user message of every call that
\* passed the input filter and never shrinks
C16_HistoryOnlyGrows ==
    [][/\ Len(conversationHistory') >= Len(conversationHistory)
       /\ SubSeq(conversationHistory', 1, Len(conversationHistory)) = conversationHistory
       /\ \A i \in 1..Len(conversationHistory') : conversationHistory'[i].role = "user"]_vars

\* ------------------------------------------------------------------- C17

\* C17: in every returned trace the step timestamps are non-decreasing in
\* trace order, whichever of the two concurrently running capabilities
\* completes first, while the clock never goes back.
C17_TimestampsNonDecreasing ==
    \A c \in Calls : pc[c] = "returned" =>
        \A i, j \in 1..Len(conversation[c]) :
            i < j => conversation[c][i].timestamp <= conversation[c][j].timestamp

\* what holds: the timestamps are in order whenever the capabilities
\* completed in the order in which their steps are placed
C17_NonDecreasingWhenCompletedInOrder ==
    \A c \in Calls : pc[c] = "returned" /\ order[c] \in {<<>>, <<RAG>>, <<SQL>>, <<RAG, SQL>>} =>
        \A i, j \in 1..Len(conversation[c]) :
            i < j => conversation[c][i].timestamp <= conversation[c][j].timestamp

\* ------------------------------------------------------------------- C18

\* the capabilities of the recorded plan of invocation c, in the order in
\* which the plan first lists them
planOrder(c) ==
    LET items == recordedPlan(c).items
        first(i) == items[i] \in {RAG, SQL} /\ \A k \in 1..(i - 1) : items[k] # items[i]
    IN  SelectSeq([i \in 1..Len(items) |-> IF first(i) THEN items[i] ELSE "none"],
                  LAMBDA a : a # "none")

\* the capabilities whose steps a returned trace holds, in trace order
stepOrder(c) ==
    [i \in 1..Len(capabilitySteps(c)) |-> capabilitySteps(c)[i].metadata[1].agentType[1]]

\* C18: the capability steps of a trace appear in the order in which the
\* delegation plan lists the capabilities, whichever completes first: a
\* plan [SQL_AGENT, RAG_AGENT] yields the sql_agent step before the
\* rag_agent step.
C18_StepsFollowPlanOrder ==
    \A c \in Calls : synthesized(c) => stepOrder(c) = planOrder(c)

\* what holds: the steps are those of the planned capabilities, the
\* retrieval step always before the query step
C18_RetrievalStepFirst ==
    \A c \in Calls : synthesized(c) =>
        stepOrder(c) = SelectSeq(<<RAG, SQL>>, LAMBDA a : a \in plannedCapabilities(c))

\* ------------------------------------------------------------------- C19

\* the steps invocations have produced so far: invocation and position
producedSteps ==
    UNION {{<<c, i>> : i \in 1..Len(conversation[c])} : c \in Calls}

\* C19: every step id is unique: no two steps a SupervisorAgent produced
\* share an id, within one trace and across the traces of successive
\* processQuery calls, under a millisecond clock that never goes back and
\* may give the same value twice.
C19_StepIdsUnique ==
    \A s, u \in producedSteps :
        s # u => conversation[s[1]][s[2]].id # conversation[u[1]][u[2]].id

\* what holds: the ids of one trace differ from one another
C19_UniqueWithinTrace ==
    \A s, u \in producedSteps :
        s # u /\ s[1] = u[1] => conversation[s[1]][s[2]].id # conversation[u[1]][u[2]].id

\* the statement for invocations that begin in different milliseconds: the
\* supervisor step of one and the first step of a later one share no id
C19_UniqueAcrossMilliseconds ==
    \A c, d \in Calls :
        /\ Len(conversation[c]) >= 2
        /\ Len(conversation[d]) >= 1
        /\ conversation[c][1].timestamp < conversation[d][1].timestamp
        => conversation[c][2].id # conversation[d][1].id

\* ------------------------------------------------------------------- C20

\* the steps of the capabilities of invocation c whose model call raised
degradedSteps(c) ==
    (IF rag[c].pc = "done" /\ rag[c].last = Reply("rag", ModelRaise)
     THEN {rag[c].msg[1]} ELSE {})
    \cup
    (IF sql[c].pc = "done" /\ sql[c].last = Reply("sql", ModelRaise)
     THEN {sql[c].msg[1]} ELSE {})

\* the tool names the steps of capabilities carry when the tool was used
\* with success (lines 492 and 726)
successfulTools == {"VectorDB_Retrieval", "BigQuery_Database", "SQL_Database_Simulator"}

\* C20: when a capability's model call raises, its step in the trace is a
\* degraded step: its confidence is the fixed low value 0.6 and its
\* metadata.toolUsed denotes the error status, not the name of a tool that
\* was used with success.
C20_FailedCapabilityIsMarked ==
    \A c \in Calls : \A msg \in degradedSteps(c) :
        /\ msg.metadata[1].confidence = Some(600)
        /\ msg.metadata[1].toolUsed # None
        /\ msg.metadata[1].toolUsed[1] \notin successfulTools

\* what holds: the fixed confidence, and a toolUsed that is the name of the
\* capability's tool
C20_FailedCapabilityHasLowConfidence ==
    \A c \in Calls : \A msg \in degradedSteps(c) :
        /\ msg.metadata[1].confidence = Some(600)
        /\ msg.metadata[1].toolUsed \in {Some("VectorDB_Retrieval"), Some("SQL_Database")}

\* ------------------------------------------------------------------- C21

\* C21: when more than one capability ran and the synthesis model call
\* raises, processQuery still returns, and the synthesis step's content is
\* the fixed heading followed by the contents of all capability steps joined
\* by the fixed connector, its confidence is exactly 0.7 and its reasoning
\* names the fallback.
C21_SynthesisFallback ==
    \A c \in Calls :
        /\ last[c].site = "synthesis"
        /\ last[c].reply.kind = "raise"
        /\ Cardinality(plannedCapabilities(c)) = 2
        => /\ pc[c] = "returned"
           /\ Len(conversation[c]) = 5
           /\ lastStep(c).role = "supervisor"
           /\ lastStep(c).content =
                 <<"Based on analysis from our specialized agents:\n\n">>
                     \o conversation[c][3].content
                     \o <<"\n\nAdditionally:\n">>
                     \o conversation[c][4].content
           /\ lastStep(c).metadata[1].confidence = Some(700)
           /\ lastStep(c).metadata[1].reasoning =
                 Some(<<"Fallback synthesis due to processing error">>)

C21_Witness ==
    \E c \in Calls :
        /\ concatenated(c)
        /\ Len(conversation[c]) = 5
        /\ conversation[c][3].metadata[1].agentType = Some("RAG_AGENT")
        /\ conversation[c][4].metadata[1].agentType = Some("SQL_AGENT")
        /\ conversation[c][3].content # conversation[c][4].content
        /\ lastStep(c).metadata[1].confidence = Some(700)

\* ------------------------------------------------------------------- C22

\* the verdicts the filters have returned in invocation c: checkQuery's on
\* the classifier's reply, checkResponse's on each text the capabilities
\* and the synthesis screened
verdictsOf(c) ==
    (IF last[c].site = "checkQuery" THEN {checkQuery(last[c].reply)} ELSE {})
    \cup
    (IF rag[c].last.site = "rag" /\ rag[c].last.reply.kind = "text"
     THEN {checkResponse(rag[c].last.reply.text)} ELSE {})
    \cup
    (IF last[c].site = "synthesis" /\ last[c].reply.kind = "text"
     THEN {checkResponse(last[c].reply.text)} ELSE {})

\* C22: every verdict checkQuery or checkResponse returns has a score in
\* [0,1], for every input text and every classifier output, also one that
\* parses as JSON and supplies its own score.
C22_ScoreInUnitInterval ==
    \A c \in Calls : \A verdict \in verdictsOf(c) :
        verdict.score >= 0 /\ verdict.score <= 1000

\* what holds: the scores of checkResponse, and those of checkQuery when the
\* classifier supplies none
C22_OwnScoresInUnitInterval ==
    \A c \in Calls : \A verdict \in verdictsOf(c) :
        \/ last[c].site = "checkQuery" /\ last[c].reply.kind = "json"
              /\ last[c].reply.score # None
        \/ verdict.score >= 100 /\ verdict.score <= 950

\* ------------------------------------------------------------------- C23

\* the disallowed patterns that match a text
matchedPatterns(text) == {p \in 1..4 : patternTest(p, text)}

\* what C23 says of the verdict on one text
verdictAsSpecified(text) ==
    LET verdict == checkResponse(text)
        n == Cardinality(matchedPatterns(text))
    IN  /\ verdict.safe <=> n = 0
        /\ n = 0 => verdict.score = 950 /\ verdict.issues = IssuesArray(<<>>)
        /\ n > 0 =>
              /\ Len(verdict.issues.items) = n
              /\ \A p \in matchedPatterns(text) :
                    \E i \in 1..n : verdict.issues.items[i][2] = prohibitedPatterns[p]
              /\ verdict.score = 950 - 200 * n
              /\ verdict.score >= 100
        /\ \A other \in ScreenedTexts :
              Cardinality(matchedPatterns(other.text)) > n =>
                  checkResponse(other.text).score < verdict.score

\* C23: checkResponse is a function of its text alone: it returns safe =
\* true with score 0.95 and no issues iff no disallowed pattern matches, and
\* otherwise safe = false with exactly one issue per matched pattern and a
\* score lowered by 0.2 per matched pattern, never below 0.1, so each
\* further matched pattern strictly lowers the score; the synthesis step
\* carries that score.
C23_CheckResponseByPatterns ==
    \A c \in Calls : last[c].site = "synthesis" =>
        /\ verdictAsSpecified(last[c].reply.text)
        /\ lastStep(c).metadata[1].safetyScore =
              Some(950 - 200 * Cardinality(matchedPatterns(last[c].reply.text)))
        /\ "synthesis" \in called[c]

C23_Witness ==
    \E c \in Calls :
        /\ last[c].site = "synthesis"
        /\ matchedPatterns(last[c].reply.text) = 1..4
        /\ lastStep(c).metadata[1].safetyScore = Some(150)

C23_WitnessNearMiss ==
    \E c \in Calls :
        /\ last[c] = Reply("synthesis",
                           ModelText(<<"DROP", "TABLE", " ", "DELETE", "total", "FROM">>))
        /\ lastStep(c).metadata[1].safetyScore = Some(950)

\* ------------------------------------------------------------------- C24

\* the statement the SQL model's reply of invocation c yields after the
\* clean-up of lines 660-669, before validation; None when there is none
cleanedStatement(c) ==
    IF sql[c].last.site # "sql" \/ sql[c].last.reply.kind # "text" THEN None
    ELSE LET m == sqlMatch(sql[c].last.reply.text)
         IN  IF m = None \/ trim(m[1]) = <<>> THEN None
             ELSE Some(cleanSqlQuery(trim(m[1])))

\* a statement that begins with SELECT and holds a word that changes data
dangerousSelect(statement) ==
    /\ startsWithSelect(statement)
    /\ \E i \in 1..Len(statement) : toUpperCase(statement[i]) \in dangerousWords

\* C24: a generated statement that begins with SELECT but holds any of
\* DROP, DELETE, INSERT, UPDATE, CREATE, ALTER, TRUNCATE is treated as not a
\* SELECT: nothing of it goes to the data backend (also for a statement of
\* the form SELECT ...; DROP ...) and the capability answers from simulated
\* data.
C24_DangerousSelectIsNotExecuted ==
    \A c \in Calls :
        cleanedStatement(c) # None /\ dangerousSelect(cleanedStatement(c)[1]) =>
            /\ sql[c].sent = None
            /\ "execute" \notin called[c]
            /\ sql[c].pc = "done" =>
                  sql[c].msg[1].metadata[1].toolUsed = Some("SQL_Database_Simulator")

\* what the backend does with the statement it is sent: of SELECT x; DROP
\* TABLE x it keeps and runs SELECT x
C24_BackendRunsTheSelectPart ==
    \A c \in Calls :
        sql[c].sent = Some(<<"SELECT", " ", "x", ";", " ", "DROP", " ", "TABLE", " ", "x">>)
            => sanitizeQuery(sql[c].sent[1]) = Sanitized(<<"SELECT", " ", "x">>)

\* ------------------------------------------------------------------- C25

\* the QueryResult the response of the query capability of invocation c
\* reports: its rows, its field names and its row count
reportedResult(c) ==
    LET response == sql[c].response[1]
    IN  [rows |-> response.toolCalls[1].result,
         schema |-> response.metadata[1].schema[1],
         totalRows |-> response.toolCalls[1].resultCount,
         live |-> response.metadata[1].usingRealData]

\* the query capability of invocation c has produced a QueryResult
hasResult(c) ==
    /\ sql[c].pc = "done"
    /\ sql[c].response[1].metadata # None
    /\ sql[c].response[1].metadata[1].schema # None

\* C25: every QueryResult of the query path has totalRows equal to the
\* number of its rows; a simulated result, from whichever branch of the
\* generator (null query, each intent, the generic default), has pairwise
\* distinct field names and, when it has rows, every key of every row is a
\* field name.
C25_QueryResultIsWellFormed ==
    \A c \in Calls : hasResult(c) =>
        LET result == reportedResult(c)
        IN  /\ result.totalRows = Len(result.rows)
            /\ ~result.live =>
                  /\ \A i, j \in 1..Len(result.schema) :
                        i # j => result.schema[i] # result.schema[j]
                  /\ \A i \in 1..Len(result.rows) :
                        result.rows[i] \subseteq {result.schema[k] : k \in 1..Len(result.schema)}

C25_Witness ==
    \E c \in Calls :
        /\ hasResult(c)
        /\ ~reportedResult(c).live
        /\ reportedResult(c).totalRows = 3
        /\ "retention_rate" \in reportedResult(c).rows[1]

C25_WitnessLive ==
    \E c \in Calls :
        /\ hasResult(c)
        /\ reportedResult(c).live
        /\ reportedResult(c).totalRows = 3
        /\ reportedResult(c).schema = <<>>

\* ------------------------------------------------------------------- C26

\* the recorded plan of invocation c names the knowledge capability and not
\* the query capability
knowledgeOnly(c) ==
    /\ Len(conversation[c]) >= 2
    /\ conversation[c][1].role = "user"
    /\ \E i \in 1..Len(recordedPlan(c).items) : recordedPlan(c).items[i] = RAG
    /\ \A i \in 1..Len(recordedPlan(c).items) : recordedPlan(c).items[i] # SQL

\* the statements the steps of invocation c carry, those of a capability
\* step not yet placed in the trace included
carriedStatements(c) ==
    {conversation[c][i].metadata[1].sqlQuery :
        i \in {k \in 1..Len(conversation[c]) : conversation[c][k].metadata # None}}
    \cup (IF sql[c].msg = None THEN {} ELSE {sql[c].msg[1].metadata[1].sqlQuery})
    \cup (IF rag[c].msg = None THEN {} ELSE {rag[c].msg[1].metadata[1].sqlQuery})

\* C26: in every trace whose delegation plan holds only the knowledge
\* capability no step carries a sqlQuery and the data backend is never
\* called; and whenever a step of any trace carries a sqlQuery, that
\* statement begins with SELECT.
C26_NoStatementWithoutQueryCapability ==
    \A c \in Calls :
        /\ knowledgeOnly(c) =>
              /\ carriedStatements(c) \subseteq {None}
              /\ called[c] \cap {"schema", "sql", "execute"} = {}
              /\ sql[c] = SqlOff
        /\ \A statement \in carriedStatements(c) \ {None} :
              toUpperCase(statement[1][1]) = "SELECT"

C26_Witness ==
    \E c \in Calls :
        /\ knowledgeOnly(c)
        /\ pc[c] = "returned"
        /\ Len(conversation[c]) = 4
        /\ conversation[c][3].role = "rag_agent"

C26_WitnessStatement ==
    \E c \in Calls :
        /\ pc[c] = "returned"
        /\ Len(conversation[c]) = 5
        /\ conversation[c][4].metadata[1].sqlQuery = Some(<<"select", " ", "customers">>)

\* ------------------------------------------------------------------- C27

\* C27: the schema cache is filled only by a successful fetch from the
\* schema provider: when the provider is unavailable the built-in fallback
\* schema serves that call without being cached, so a later processQuery on
\* the same SQLAgent asks the provider again.
C27_FallbackSchemaIsNotCached ==
    /\ schemaCache # Some(getFallbackSchema)
    /\ \A c \in Calls :
          sql[c].schema = Some(getFallbackSchema) => "schema" \in called[c]

\* the second half of the statement alone: a call that works from the
\* fallback schema has asked the provider itself
C27_LaterCallAsksAgain ==
    \A c \in Calls :
        sql[c].schema = Some(getFallbackSchema) => "schema" \in called[c]

\* what holds: once a fetch has answered, whatever it answered, the cache is
\* filled and no later call asks the provider
C27_AnyAnswerIsCached ==
    \A c \in Calls :
        /\ sql[c].last.site = "schema" => cacheHit(schemaCache)
        /\ "schema" \in called[c] /\ Finished(c) => schemaWrites >= 1
        /\ schemaWrites <= 1

\* ------------------------------------------------------------------- C28

\* the capability steps invocation c itself has produced, in the order in
\* which executeAgentPlan places them
ownCapabilitySteps(c) ==
    (IF rag[c].msg = None THEN <<>> ELSE <<rag[c].msg[1]>>)
        \o (IF sql[c].msg = None THEN <<>> ELSE <<sql[c].msg[1]>>)

\* C28: steps of different queries are never mixed: under every interleaving
\* of overlapping processQuery calls on one SupervisorAgent, a returned
\* trace holds only the steps made for its own query (its user step with
\* that call's text, its supervisor step with the plan of that text, the
\* steps of its own capabilities and one synthesis step).
C28_TraceHoldsOwnStepsOnly ==
    \A c \in Calls : pc[c] = "returned" =>
        /\ conversation[c][1].role = "user"
        /\ conversation[c][1].content = userQuery[c]
        /\ conversation[c][2].role = "supervisor"
        /\ recordedPlan(c).items = keywordPlan(userQuery[c])
        /\ capabilitySteps(c) = ownCapabilitySteps(c)
        /\ Len(capabilitySteps(c)) = Len(keywordPlan(userQuery[c]))
        /\ Len(conversation[c]) = 3 + Len(keywordPlan(userQuery[c]))
        /\ lastStep(c).metadata[1].agentType = Some("SUPERVISOR_SYNTHESIS")

\* two invocations with different queries overlapped and both returned
C28_Witness ==
    \E c, d \in Calls :
        /\ pc[c] = "returned" /\ pc[d] = "returned"
        /\ userQuery[c] = <<"POLICY">> /\ userQuery[d] = <<"to", " ", "How">>
        /\ Len(conversation[c]) = 4 /\ Len(conversation[d]) = 5
        /\ conversation[c][1].timestamp = conversation[d][1].timestamp
        /\ Len(conversationHistory) = 2

\* ------------------------------------------------------------------- C29

\* the ports in the order in which a processQuery reaches them
stage(site) ==
    CASE site = "checkQuery" -> 1
      [] site = "performReAct" -> 2
      [] site \in {"rag", "schema", "sql", "execute"} -> 3
      [] site \in {"synthesis", "checkResponse"} -> 4

\* where invocation c stands, as a stage
stageOf(c) ==
    CASE pc[c] = "checkQuery" -> 1
      [] pc[c] = "performReAct" -> 2
      [] pc[c] = "executeAgentPlan" -> 3
      [] OTHER -> 4

synthesisSteps(c) ==
    {i \in 1..Len(conversation[c]) :
        /\ conversation[c][i].metadata # None
        /\ conversation[c][i].metadata[1].agentType = Some("SUPERVISOR_SYNTHESIS")}

\* C29: within one processQuery that is not rejected the events come in a
\* fixed order: input safety check, classification, capability
\* invocations, synthesis with its output safety check. No capability is
\* invoked before classification has produced the plan, the synthesis step
\* is the last step of the trace, and there is exactly one.
C29_StagesInOrder ==
    \A c \in Calls : pc[c] # "idle" =>
        /\ \A site \in called[c] : stage(site) <= stageOf(c)
        /\ called[c] \cap {"rag", "schema", "sql", "execute"} # {} =>
              /\ {"checkQuery", "performReAct"} \subseteq called[c]
              /\ Len(conversation[c]) >= 2
              /\ conversation[c][2].metadata[1].delegationPlan # None
        /\ called[c] \cap {"synthesis", "checkResponse"} # {} =>
              /\ rag[c].pc \in {"off", "done"}
              /\ sql[c].pc \in {"off", "done"}
        /\ pc[c] = "returned" /\ ~rejected(c) =>
              synthesisSteps(c) = {Len(conversation[c])}

\* the same, step by step: the stage of an invocation never goes back, and
\* its capabilities move only while it awaits them
C29_StagesNeverGoBack ==
    [][\A c \in Calls :
          /\ pc[c] # "idle" /\ pc'[c] # "checkQuery" => stageOf(c) <= stageOf(c)'
          /\ (rag'[c] # rag[c] \/ sql'[c] # sql[c]) /\ pc'[c] # "checkQuery" =>
                pc'[c] = "executeAgentPlan"]_vars

C29_Witness ==
    \E c \in Calls :
        /\ pc[c] = "returned"
        /\ called[c] = {"checkQuery", "performReAct", "rag", "schema", "sql", "execute",
                        "synthesis", "checkResponse"}
        /\ synthesisSteps(c) = {5}

\* ------------------------------------------------------------------- C30

\* the SQL model of invocation c answered and no statement survived
\* validation
noStatementSurvived(c) ==
    /\ sql[c].pc = "done"
    /\ sql[c].last.site = "sql"
    /\ sql[c].last.reply.kind = "text"
    /\ ~hasSqlQuery(sql[c].sqlQuery)

\* the result the generator gives when no intent keyword matches
genericResult ==
    QueryResult(Rows(4, {"metric", "value", "change"}), <<"metric", "value", "change">>, 4)

\* C30: when no generated statement survives validation the data backend is
\* not called, and the simulated result generator, given the null query,
\* returns the generic schema and rows it uses whenever no intent keyword
\* matches: a fixed set of rows that is not empty.
C30_NullQueryYieldsGenericResult ==
    \A c \in Calls : noStatementSurvived(c) =>
        /\ "execute" \notin called[c]
        /\ sql[c].sent = None
        /\ ~reportedResult(c).live
        /\ reportedResult(c).rows = genericResult.rows
        /\ reportedResult(c).schema = genericResult.schema
        /\ reportedResult(c).totalRows = genericResult.totalRows

\* what holds: no call of the backend, and an empty simulated result
C30_NullQueryYieldsEmptyResult ==
    \A c \in Calls : noStatementSurvived(c) =>
        /\ "execute" \notin called[c]
        /\ sql[c].sent = None
        /\ ~reportedResult(c).live
        /\ reportedResult(c).rows = <<>>
        /\ reportedResult(c).schema = <<>>
        /\ reportedResult(c).totalRows = 0
        /\ sql[c].msg[1].metadata[1].toolUsed = Some("SQL_Database_Simulator")


\* ------------------------------------------------------------------ C31
\* Statements on the large tables reach the backend.
LargeTableReplies ==
    {ModelText(<<"SQL_QUERY:", " ", "SELECT", " ", "*", " ", "FROM", " ", "events">>),
     ModelText(<<"SQL_QUERY:", " ", "SELECT", " ", "*", " ", "FROM", " ", "events", " ",
                 "ORDER", " ", "BY", " ", "id">>),
     ModelText(<<"SQL_QUERY:", " ", "SELECT", " ", "*", " ", "FROM", " ", "events", " ",
                 "WHERE", " ", "created_at", " ", ">", " ", "INTERVAL 30 DAY">>),
     ModelText(<<"SQL_QUERY:", " ", "SELECT", " ", "*", " ", "FROM", " ", "order_items">>),
     ModelText(<<"SQL_QUERY:", " ", "SELECT", " ", "id", " ", "FROM", " ", "users", " ",
                 "LIMIT", " ", "5000">>),
     ModelText(<<"SQL_QUERY:", " ", "SELECT", " ", "total", " ", "FROM", " ", "sales">>)}

Tightening ==
    [queries |-> {<<"Sales">>}, checkQuery |-> {SafetyUnparsable},
     performReAct |-> {ReactJson(<<"SQL_AGENT">>, Some(900), PlanAbsent),
                       ReactJson(<<"RAG_AGENT">>, Some(900), PlanAbsent),
                       ReactJson(<<"BOTH">>, Some(900), PlanAbsent)},
     rag |-> {ModelText(<<"restock", " ", "weekly">>)},
     schema |-> {SchemaRaise, SchemaData(Some(<<"BigQuery Dataset: thelook">>))},
     sql |-> LargeTableReplies,
     execute |-> {ExecData(TRUE, Some(LiveRows), None), ExecRaise(None)},
     synthesis |-> {ModelText(<<"sales", " ", "grew">>)},
     silent |-> {},
     deterministic |-> FALSE, overlap |-> FALSE, reuse |-> TRUE, slots |-> {1}]

NextTight == \E c \in Calls : proceeds(c, Tightening)

SpecTight == Init /\ [][NextTight]_vars

\* the statement of call c that the backend runs, None when there is none
backendStatement(c) ==
    IF sql[c].sent = None THEN None ELSE submittedQuery(sql[c].sent[1])

referencesLargeTable(q) ==
    \E i \in 1..Len(q) : \E table \in largeTables :
        toUpperCase(q[i]) = toUpperCase(table)

\* a WHERE clause that restricts the rows to a number of past days
hasRecencyFilter(q) ==
    /\ \E i \in 1..Len(q) : toUpperCase(q[i]) = "WHERE"
    /\ \E i \in 1..Len(q) : q[i] \in {"INTERVAL 7 DAY", "INTERVAL 30 DAY"}

\* a LIMIT of at most 1000 rows
hasRowCap(q) ==
    \E i \in 1..(Len(q) - 2) :
        /\ toUpperCase(q[i]) = "LIMIT"
        /\ parseInt(q[i + 2]) # NaN
        /\ parseInt(q[i + 2]) <= 1000

\* C31: every statement on a large table that lacks a recency filter or a
\* row cap is submitted to the backend with both a recency filter and a row
\* cap of at most 1000 rows.
C31_LargeTableStatementIsTightened ==
    \A c \in Calls :
        (/\ sql[c].sent # None
         /\ backendStatement(c) # None
         /\ referencesLargeTable(sql[c].sent[1])
         /\ ~(hasRecencyFilter(sql[c].sent[1]) /\ hasRowCap(sql[c].sent[1])))
        => /\ hasRecencyFilter(backendStatement(c)[1])
           /\ hasRowCap(backendStatement(c)[1])

\* What the rewriting does achieve: every submitted statement on a large
\* table carries a row cap of at most 1000 rows.
C31_LargeTableStatementIsCapped ==
    \A c \in Calls :
        (/\ sql[c].sent # None
         /\ backendStatement(c) # None
         /\ referencesLargeTable(sql[c].sent[1]))
        => hasRowCap(backendStatement(c)[1])

\* a statement on events without WHERE and with a clause behind the table
\* does get the filter
C31_WitnessFiltered ==
    \E c \in Calls :
        /\ sql[c].sent # None
        /\ backendStatement(c) # None
        /\ ~hasRecencyFilter(sql[c].sent[1])
        /\ hasRecencyFilter(backendStatement(c)[1])


\* ------------------------------------------------------------------- C32

\* the backend executed the statement of invocation c and returned no rows
executedEmpty(c) ==
    /\ sql[c].pc = "done"
    /\ sql[c].last.site = "execute"
    /\ sql[c].last.reply.kind = "data"
    /\ sql[c].last.reply.success
    /\ sql[c].last.reply.result # None
    /\ sql[c].last.reply.result[1].totalRows = 0

\* the response treats the execution as a success on live data
liveSuccess(response) ==
    /\ response.metadata # None
    /\ response.metadata[1].usingRealData
    /\ response.metadata[1].dataSource = "BigQuery"
    /\ response.metadata[1].executionError = None
    /\ response.toolCalls[1].toolName = "BigQuery_Database"
    /\ response.toolCalls[1].status = "success"

\* phrases by which a message tells that the query matched no data
noDataPhrases ==
    {"no matching data", "No matching data", "no data matched", "No data matched",
     "no results", "No results", "no rows", "No rows"}

narratesNoData(message) == \E i \in 1..Len(message) : message[i] \in noDataPhrases

\* C32: when the backend executes a validated statement successfully and
\* returns zero rows, the query capability treats it as a success on live
\* data (usingRealData, no execution error, no simulated data) and its
\* message narrates that no data matched.
C32_EmptyResultIsNarrated ==
    \A c \in Calls : executedEmpty(c) =>
        /\ liveSuccess(sql[c].response[1])
        /\ sql[c].response[1].toolCalls[1].result = <<>>
        /\ narratesNoData(sql[c].response[1].message)

\* What holds: the empty result is reported as a success on live data with
\* no rows.
C32_EmptyResultIsLive ==
    \A c \in Calls : executedEmpty(c) =>
        /\ liveSuccess(sql[c].response[1])
        /\ sql[c].response[1].toolCalls[1].result = <<>>
        /\ sql[c].response[1].toolCalls[1].resultCount = 0

\* What holds as well: the message of the query capability is fixed before
\* the statement is executed; whatever the backend answers, it is the text
\* of the model or the compliance sentence.
C32_MessageIgnoresResult ==
    \A c \in Calls :
        (sql[c].pc = "done" /\ sql[c].last.site = "execute") =>
            sql[c].response[1].message =
                sqlWithoutExecute(sql[c].text, sql[c].sqlQuery).message

C32_WitnessEmpty == \E c \in Calls : executedEmpty(c)


\* ------------------------------------------------------------------- C33

\* the execute call of invocation c returned success
executedSuccessfully(c) ==
    /\ sql[c].last.site = "execute"
    /\ sql[c].last.reply.kind = "data"
    /\ sql[c].last.reply.success

\* lines 680-753 were reached: the model answered the query capability
modelAnswered(c) ==
    \/ sql[c].last.site = "execute"
    \/ sql[c].last.site = "sql" /\ sql[c].last.reply.kind = "text"

reportsLive(response) ==
    response.metadata # None /\ response.metadata[1].usingRealData

executedAgainstReal ==
    <<"Generated optimized BigQuery SQL and executed against real retail database">>

labelledSimulated(response) ==
    /\ response.metadata # None
    /\ ~response.metadata[1].usingRealData
    /\ response.metadata[1].dataSource = "Simulated"
    /\ response.toolCalls[1].toolName = "SQL_Database_Simulator"
    /\ response.reasoning =
          <<"Generated SQL query and simulated results based on retail database schema">>

\* C33: the query capability reports live data iff the execute call of that
\* invocation returned success: usingRealData, the tool name
\* BigQuery_Database and the reasoning "executed against real" occur exactly
\* then, in the response and in the step built from it; when there was no
\* statement, or the backend failed or raised, the response is labelled
\* simulated.
C33_LiveIffExecuted ==
    \A c \in Calls : sql[c].pc = "done" =>
        LET response == sql[c].response[1]
            sqlStep == sql[c].msg[1].metadata[1]
        IN  /\ reportsLive(response) <=> executedSuccessfully(c)
            /\ response.toolCalls[1].toolName = "BigQuery_Database"
                  <=> executedSuccessfully(c)
            /\ response.reasoning = executedAgainstReal <=> executedSuccessfully(c)
            /\ sqlStep.toolUsed = Some("BigQuery_Database") <=> executedSuccessfully(c)
            /\ sqlStep.reasoning = Some(executedAgainstReal) <=> executedSuccessfully(c)
            /\ (modelAnswered(c) /\ ~executedSuccessfully(c))
                  => labelledSimulated(response)

\* an invocation reports live data after a successful execution
C33_Witness ==
    \E c \in Calls :
        /\ sql[c].pc = "done" /\ executedSuccessfully(c)
        /\ reportsLive(sql[c].response[1])
        /\ sql[c].msg[1].metadata[1].toolUsed = Some("BigQuery_Database")

\* an invocation is labelled simulated after the backend answered with a
\* failure, after it raised, and when no statement was found
C33_WitnessFailure ==
    \E c \in Calls :
        /\ sql[c].pc = "done" /\ sql[c].last.site = "execute"
        /\ sql[c].last.reply.kind = "data" /\ ~sql[c].last.reply.success
        /\ labelledSimulated(sql[c].response[1])

C33_WitnessRaise ==
    \E c \in Calls :
        /\ sql[c].pc = "done" /\ sql[c].last.site = "execute"
        /\ sql[c].last.reply.kind = "raise"
        /\ labelledSimulated(sql[c].response[1])

C33_WitnessNoStatement ==
    \E c \in Calls :
        /\ sql[c].pc = "done" /\ sql[c].last.site = "sql"
        /\ sql[c].last.reply.kind = "text"
        /\ labelledSimulated(sql[c].response[1])


\* ------------------------------------------------------------------- C34
\* Texts of the model that checkResponse must stop, and texts that are safe
\* alone but would match DROP\s+TABLE if they were joined by whitespace.
Guarding ==
    [queries |-> {<<"Sales">>}, checkQuery |-> {SafetyUnparsable},
     performReAct |-> {ReactJson(<<"SQL_AGENT">>, Some(900), PlanAbsent),
                       ReactJson(<<"RAG_AGENT">>, Some(900), PlanAbsent),
                       ReactJson(<<"BOTH">>, Some(900), PlanAbsent)},
     rag |-> {ModelRaise,
              ModelText(<<"restock", " ", "weekly">>),
              ModelText(<<"drop", " ", "table", " ", "Password">>),
              ModelText(<<"always", " ", "drop">>)},
     schema |-> {SchemaData(Some(<<"BigQuery Dataset: thelook">>))},
     sql |-> {ModelRaise,
              ModelText(<<"table", " ", "sizes", "\n", "SQL_QUERY:", " ", "SELECT", " ",
                          "total", " ", "FROM", " ", "sales">>),
              ModelText(<<"SQL_QUERY:", " ", "SELECT", " ", "password", " ", "FROM", " ",
                          "customers">>),
              ModelText(<<"confidential", " ", "figures">>)},
     execute |-> {ExecData(TRUE, Some(LiveRows), None), ExecRaise(None)},
     synthesis |-> {ModelRaise, ModelText(<<"sales", " ", "grew">>),
                    ModelText(<<"delete", " ", "from", " ", "sales">>)},
     silent |-> {},
     deterministic |-> FALSE, overlap |-> FALSE, reuse |-> TRUE, slots |-> {1}]

NextGuard == \E c \in Calls : proceeds(c, Guarding)

SpecGuard == Init /\ [][NextGuard]_vars

\* the steps of the trace of invocation c that a capability or the
\* synthesis produced
answerSteps(c) ==
    {i \in 1..Len(conversation[c]) :
        /\ conversation[c][i].metadata # None
        /\ conversation[c][i].metadata[1].agentType \in
              {Some("RAG_AGENT"), Some("SQL_AGENT"), Some("SUPERVISOR_SYNTHESIS")}}

matchesNoPattern(content) == \A p \in 1..Len(prohibitedPatterns) : ~patternTest(p, content)

\* C34: in every returned trace the content of every capability step and of
\* the synthesis step matches none of the patterns of checkResponse, on
\* every path, the fallbacks of the capabilities and the concatenation
\* fallback of the synthesis included.
C34_AnswersMatchNoPattern ==
    \A c \in Calls : pc[c] = "returned" =>
        \A i \in answerSteps(c) : matchesNoPattern(conversation[c][i].content)

\* a text of the model that matches a pattern was replaced in a capability
\* step of a returned trace
C34_Witness ==
    \E c \in Calls :
        /\ pc[c] = "returned"
        /\ rag[c].pc = "done" /\ rag[c].last.reply.kind = "text"
        /\ ~matchesNoPattern(rag[c].last.reply.text)
        /\ \E i \in answerSteps(c) :
              /\ conversation[c][i].metadata[1].agentType = Some("RAG_AGENT")
              /\ conversation[c][i].content =
                    <<"I found relevant information but need to review it for compliance.">>

\* a text of the synthesis model that matches DELETE\s+FROM in lower case
\* was replaced in the synthesis step
C34_WitnessSynthesis ==
    \E c \in Calls :
        /\ synthesized(c)
        /\ last[c].site = "synthesis"
        /\ last[c].reply = ModelText(<<"delete", " ", "from", " ", "sales">>)
        /\ lastStep(c).content =
              <<"I've analyzed multiple data sources but need to review the response for compliance.">>
        /\ lastStep(c).metadata[1].safetyScore = Some(750)

\* the concatenation fallback joined a text that ends with DROP and a text
\* that begins with TABLE
C34_WitnessConcatenated ==
    \E c \in Calls :
        /\ concatenated(c)
        /\ rag[c].pc = "done" /\ rag[c].last.reply = ModelText(<<"always", " ", "drop">>)
        /\ sql[c].pc = "done" /\ sql[c].text # <<>> /\ sql[c].text[1] = "table"
        /\ Cardinality(answerSteps(c)) = 3


\* ------------------------------------------------------------------- C35

\* the trace of invocation c was synthesized from one capability step
singleAnswer(c) ==
    /\ synthesized(c)
    /\ Len(capabilitySteps(c)) = 1
    /\ capabilitySteps(c)[1].metadata # None
    /\ capabilitySteps(c)[1].metadata[1].agentType \in {Some("RAG_AGENT"), Some("SQL_AGENT")}

\* C35: in the single-capability path the output check never withholds the
\* answer: checkResponse on the content of the capability step is safe with
\* score 0.95, and the synthesis step has safetyScore 0.95, the prefix
\* followed by the content of the capability step as its content, and the
\* confidence of the capability step as its confidence.
C35_SingleSynthesisNeverWithholds ==
    \A c \in Calls : singleAnswer(c) =>
        LET capability == capabilitySteps(c)[1]
            synthesis == lastStep(c)
        IN  /\ checkResponse(capability.content).safe
            /\ checkResponse(capability.content).score = 950
            /\ synthesis.metadata[1].safetyScore = Some(950)
            /\ synthesis.content =
                  <<"Based on the analysis, here's what I found:\n\n">>
                      \o capability.content
            /\ synthesis.metadata[1].confidence = capability.metadata[1].confidence

\* a single capability whose own check found its text unsafe: its step has
\* a confidence below 0.95 and the synthesis repeats that confidence with
\* safetyScore 0.95
C35_Witness ==
    \E c \in Calls :
        /\ singleAnswer(c)
        /\ capabilitySteps(c)[1].metadata[1].safetyScore # Some(950)
        /\ capabilitySteps(c)[1].metadata[1].confidence # Some(600)
        /\ lastStep(c).metadata[1].safetyScore = Some(950)
        /\ lastStep(c).metadata[1].confidence = capabilitySteps(c)[1].metadata[1].confidence

\* a single capability that took its fallback
C35_WitnessFallback ==
    \E c \in Calls :
        /\ singleAnswer(c)
        /\ capabilitySteps(c)[1].metadata[1].confidence = Some(600)
        /\ lastStep(c).metadata[1].confidence = Some(600)


\* ------------------------------------------------------------------- C36

\* the statement holds none of the operations and begins with SELECT
selectOnly(q) ==
    /\ trim(q) # <<>> /\ toUpperCase(trim(q)[1]) = "SELECT"
    /\ \A i \in 1..Len(q) : \A k \in 1..Len(dangerousOps) :
          ~tokenIncludes(toUpperCase(q[i]), dangerousOps[k])

\* C36: in the LangChain BigQuery agent every statement that sql_db_query
\* submits to BigQuery has been accepted by sql_db_query_checker: it begins
\* with SELECT and contains none of DROP, DELETE, INSERT, UPDATE, CREATE,
\* ALTER, TRUNCATE, in whatever order the model calls the tools.
C36_SubmittedStatementsWereAccepted ==
    \A q \in langChain.submitted :
        /\ q \in langChain.accepted
        /\ selectOnly(q)

\* What holds: the checker accepts a statement only if it begins with
\* SELECT and holds none of the operations.
C36_CheckerAcceptsSelectsOnly ==
    \A q \in langChain.accepted : selectOnly(q) /\ checkerAccepts(q)

\* sql_db_query has submitted DROP TABLE sales although the checker had
\* answered DANGER for it
C36_SubmittedAfterDanger ==
    /\ DropSales \in langChain.submitted
    /\ langChain.accepted = {}
    /\ langChain.steps >= 4

====
